---- MODULE Spec2Model ----
(***************************************************************************)
(* Constraint system and parallel witness solver of gnark-tiny-prover-g16. *)
(*                                                                         *)
(* Sequences model Go slices; a Go index i is the sequence index i + 1     *)
(* (operator At).  Field elements are residues modulo q.                   *)
(***************************************************************************)
EXTENDS Integers, Sequences, FiniteSets, TLC

(***************************************************************************)
(* Bounds of the model                                                     *)
(***************************************************************************)
\* runtime.NumCPU(): size of the worker pool and of both channels
NumCPU == 2
\* witness values are drawn from 0 .. MaxWitnessValue
MaxWitnessValue == 2
\* number of successive Solve calls on the same system and witness
MaxSolves == 2
\* calls of AddCoeff and MakeTerm on one coefficient table
MaxCoeffCalls == 3
\* compress-decompress round trips into one scratch
MaxRoundTrips == 2
\* public and secret values of a witness
MaxNbPublic == 2
MaxNbSecret == 1
\* writes into the vectors of the witnesses after Public()
MaxVectorWrites == 1

(***************************************************************************)
(* Program constants                                                       *)
(***************************************************************************)
\* the scalar field modulus (fr.Modulus()), scaled down to a small prime in
\* which 0, 1, 2, -1, -2 are pairwise distinct and other values exist
q == 7
minWorkPerCPU == 50
ConstrainSystemTypeR1CS == 1
CoeffIdZero == 0
CoeffIdOne == 1
CoeffIdTwo == 2
CoeffIdMinusOne == 3
CoeffIdMinusTwo == 4
\* math.MaxUint32, the wire id of a constant term.  TLC integers are 32 bits
\* wide, so a uint32 is modelled 16 bits wide: every word of the call-data of
\* the systems below is far smaller
MaxUint32 == 65535

At(s, i) == s[i + 1]

Min(x, y) == IF x <= y THEN x ELSE y

Range(s) == {s[i] : i \in DOMAIN s}

(***************************************************************************)
(* fr.Element arithmetic                                                   *)
(***************************************************************************)
Fp == 0 .. (q - 1)

Add(x, y) == (x + y) % q

Sub(x, y) == (x - y + q) % q

Mul(x, y) == (x * y) % q

Neg(x) == (q - x) % q

Double(x) == (2 * x) % q

\* fr.Element.Inverse: the inverse of 0 is 0
Inverse(x) == IF x % q = 0 THEN 0 ELSE CHOOSE y \in 1 .. (q - 1) : (x * y) % q = 1

\* fr.Element.Div: x / y, and 0 when y is 0
Div(x, y) == Mul(x, Inverse(y))

(***************************************************************************)
(* Terms, linear expressions, R1C, HintMapping                             *)
(***************************************************************************)
Term(cid, vid) == [CID |-> cid, VID |-> vid]

IsConstant(t) == t.VID = MaxUint32

\* a Go slice: its backing array (whose length is the capacity) and its length
Slice(arr, n) == [arr |-> arr, len |-> n]

NilSlice == Slice(<<>>, 0)

Cap(sl) == Len(sl.arr)

\* the elements a slice holds
Elems(sl) == SubSeq(sl.arr, 1, sl.len)

\* a slice holding exactly the elements of a sequence
SliceOf(seq) == Slice(seq, Len(seq))

ZeroTerm == Term(0, 0)

R1C(L, R, O) == [L |-> L, R |-> R, O |-> O]

HintMapping(id, inputs, start, end) ==
    [HintID |-> id, Inputs |-> inputs, OutputRange |-> [Start |-> start, End |-> end]]

(***************************************************************************)
(* Blueprints: compression of R1Cs and hints into uint32 call-data         *)
(***************************************************************************)
\* the conversion uint32(x)
U32(x) == x % (MaxUint32 + 1)

\* the words cid, vid of every term of a sequence of terms, in order
RECURSIVE FlattenTerms(_)
FlattenTerms(terms) ==
    IF terms = <<>> THEN <<>>
    ELSE <<U32(Head(terms).CID), U32(Head(terms).VID)>> \o FlattenTerms(Tail(terms))

CompressR1C(c) ==
    LET nbInputs == 4 + 2 * (c.L.len + c.R.len + c.O.len)
    IN  <<U32(nbInputs), U32(c.L.len), U32(c.R.len), U32(c.O.len)>>
            \o FlattenTerms(Elems(c.L))
            \o FlattenTerms(Elems(c.R))
            \o FlattenTerms(Elems(c.O))

\* variant: a destination whose capacity suffices keeps its length
copySlice_NoReslice(slice, expectedLen, idx, calldata) ==
    LET base == IF Cap(slice) >= expectedLen
                THEN slice.arr
                ELSE [k \in 1 .. (2 * expectedLen) |-> ZeroTerm]
    IN  Slice([k \in 1 .. Len(base) |->
                  IF k <= expectedLen
                  THEN Term(At(calldata, idx + 2 * (k - 1)),
                            At(calldata, idx + 2 * (k - 1) + 1))
                  ELSE base[k]],
              IF Cap(slice) >= expectedLen THEN slice.len ELSE expectedLen)

\* copySlice of DecompressR1C: the destination is resliced when its capacity
\* suffices and reallocated with twice the length otherwise, then its first
\* expectedLen terms are overwritten from calldata[idx..]
copySlice(slice, expectedLen, idx, calldata) ==
    LET base == IF Cap(slice) >= expectedLen
                THEN slice.arr
                ELSE [k \in 1 .. (2 * expectedLen) |-> ZeroTerm]
    IN  Slice([k \in 1 .. Len(base) |->
                  IF k <= expectedLen
                  THEN Term(At(calldata, idx + 2 * (k - 1)),
                            At(calldata, idx + 2 * (k - 1) + 1))
                  ELSE base[k]],
              expectedLen)

DecompressR1C(c, calldata) ==
    LET lenL == At(calldata, 1)
        lenR == At(calldata, 2)
        lenO == At(calldata, 3)
        offset == 4
    IN  [L |-> copySlice(c.L, lenL, offset, calldata),
         R |-> copySlice(c.R, lenR, offset + 2 * lenL, calldata),
         O |-> copySlice(c.O, lenO, offset + 2 * (lenL + lenR), calldata)]

\* the words of the input linear expressions of a hint, each preceded by its length
RECURSIVE FlattenInputs(_)
FlattenInputs(inputs) ==
    IF inputs = <<>> THEN <<>>
    ELSE <<U32(Head(inputs).len)>> \o FlattenTerms(Elems(Head(inputs)))
             \o FlattenInputs(Tail(inputs))

CompressHint(h) ==
    LET r == <<U32(Len(FlattenInputs(Elems(h.Inputs))) + 5), U32(h.HintID), U32(h.Inputs.len)>>
                 \o FlattenInputs(Elems(h.Inputs))
                 \o <<h.OutputRange.Start, h.OutputRange.End>>
    IN  r

\* variant: the length word of an input is not skipped
RECURSIVE hintInputOffset_NoLengthWord(_, _)
hintInputOffset_NoLengthWord(calldata, i) ==
    IF i = 0 THEN 3
    ELSE LET j == hintInputOffset_NoLengthWord(calldata, i - 1)
         IN  j + 2 * At(calldata, j)

\* index j of DecompressHint when it reaches input i: the position of the
\* length word of the i-th input linear expression
RECURSIVE hintInputOffset(_, _)
hintInputOffset(calldata, i) ==
    IF i = 0 THEN 3
    ELSE LET j == hintInputOffset(calldata, i - 1)
         IN  j + 1 + 2 * At(calldata, j)

DecompressHint(h, calldata) ==
    LET lenInputs == At(calldata, 2)
        base == IF Cap(h.Inputs) >= lenInputs
                THEN h.Inputs.arr
                ELSE [k \in 1 .. lenInputs |-> NilSlice]
        input(i) ==
            LET j == hintInputOffset(calldata, i)
                n == At(calldata, j)
                old == base[i + 1]
                arr == IF Cap(old) >= n THEN old.arr ELSE [k \in 1 .. n |-> ZeroTerm]
            IN  Slice([k \in 1 .. Len(arr) |->
                          IF k <= n
                          THEN Term(At(calldata, j + 1 + 2 * (k - 1)),
                                    At(calldata, j + 2 + 2 * (k - 1)))
                          ELSE arr[k]],
                      n)
        jEnd == hintInputOffset(calldata, lenInputs)
    IN  [HintID |-> At(calldata, 1),
         Inputs |-> Slice([k \in 1 .. Len(base) |->
                              IF k <= lenInputs THEN input(k - 1) ELSE base[k]],
                          lenInputs),
         OutputRange |-> [Start |-> At(calldata, jEnd), End |-> At(calldata, jEnd + 1)]]

\* NbInputs of both generic blueprints: the length is stored in calldata[0]
NbInputs(blueprint) == -1

NbConstraints(blueprint) == IF blueprint = "BlueprintGenericR1C" THEN 1 ELSE 0

\* the type assertions blueprint.(BlueprintR1C) and blueprint.(BlueprintHint)
IsBlueprintR1C(blueprint) == blueprint = "BlueprintGenericR1C"

IsBlueprintHint(blueprint) == blueprint = "BlueprintGenericHint"

(***************************************************************************)
(* Coefficient table                                                       *)
(***************************************************************************)
newCoeffTable ==
    [Coefficients |-> <<0, 1, 2, Neg(1), Neg(2)>>,
     mCoeffs |-> <<>>]

\* mCoeffs is a sequence of <<value, id>> pairs
mCoeffsHas(ct, e) == \E k \in DOMAIN ct.mCoeffs : ct.mCoeffs[k][1] = e

mCoeffsGet(ct, e) == (CHOOSE k \in Range(ct.mCoeffs) : k[1] = e)[2]

\* variant: the map of the coefficients already stored is not consulted
AddCoeffID_NoLookup(ct, e) ==
    IF e = 0 THEN CoeffIdZero
    ELSE IF e = 1 THEN CoeffIdOne
    ELSE IF e = 2 % q THEN CoeffIdTwo
    ELSE IF e = Neg(1) THEN CoeffIdMinusOne
    ELSE IF e = Neg(2) THEN CoeffIdMinusTwo
    ELSE U32(Len(ct.Coefficients))

\* AddCoeff: the id it returns, and the table after the call
AddCoeffID(ct, e) ==
    IF e = 0 THEN CoeffIdZero
    ELSE IF e = 1 THEN CoeffIdOne
    ELSE IF e = 2 % q THEN CoeffIdTwo
    ELSE IF e = Neg(1) THEN CoeffIdMinusOne
    ELSE IF e = Neg(2) THEN CoeffIdMinusTwo
    ELSE IF mCoeffsHas(ct, e) THEN mCoeffsGet(ct, e)
    ELSE U32(Len(ct.Coefficients))

\* variant: a new coefficient gets its id but is not appended
AddCoeff_NotAppended(ct, e) ==
    IF e \in {0, 1, 2 % q, Neg(1), Neg(2)} \/ mCoeffsHas(ct, e)
    THEN ct
    ELSE [Coefficients |-> ct.Coefficients,
          mCoeffs |-> Append(ct.mCoeffs, <<e, U32(Len(ct.Coefficients))>>)]

AddCoeff(ct, e) ==
    IF e \in {0, 1, 2 % q, Neg(1), Neg(2)} \/ mCoeffsHas(ct, e)
    THEN ct
    ELSE [Coefficients |-> Append(ct.Coefficients, e),
          mCoeffs |-> Append(ct.mCoeffs, <<e, U32(Len(ct.Coefficients))>>)]

\* MakeTerm: the table after the call and the term returned
MakeTerm(ct, coeff, variableID) ==
    [table |-> AddCoeff(ct, coeff),
     term |-> Term(AddCoeffID(ct, coeff), U32(variableID))]

(***************************************************************************)
(* The constraint system                                                   *)
(***************************************************************************)
\* NewSystem and newSystem: an empty system whose blueprint 0 is the generic hint
NewSystem(t) ==
    [Type |-> t,
     Instructions |-> <<>>,
     Blueprints |-> <<"BlueprintGenericHint">>,
     CallData |-> <<>>,
     NbConstraints |-> 0,
     NbInternalVariables |-> 0,
     Public |-> <<>>,
     Secret |-> <<>>,
     MHintsDependencies |-> <<>>,
     Levels |-> <<>>,
     q |-> q,
     genericHint |-> 0]

newSystem(t) ==
    LET sys == NewSystem(t)
        ct == newCoeffTable
    IN  [Type |-> sys.Type, Instructions |-> sys.Instructions,
         Blueprints |-> sys.Blueprints, CallData |-> sys.CallData,
         NbConstraints |-> sys.NbConstraints,
         NbInternalVariables |-> sys.NbInternalVariables,
         Public |-> sys.Public, Secret |-> sys.Secret,
         MHintsDependencies |-> sys.MHintsDependencies, Levels |-> sys.Levels,
         q |-> sys.q, genericHint |-> sys.genericHint,
         Coefficients |-> ct.Coefficients, mCoeffs |-> ct.mCoeffs]

NewR1CS == newSystem(ConstrainSystemTypeR1CS)

AddBlueprint(sys, b) == [sys EXCEPT !.Blueprints = Append(@, b)]

\* the wire ids AddPublicVariable, AddSecretVariable and AddInternalVariable return
PublicVariableIdx(sys) == Len(sys.Public)

\* variant: the public wires are not counted
SecretVariableIdx_NoPublic(sys) == Len(sys.Secret)

SecretVariableIdx(sys) == Len(sys.Secret) + Len(sys.Public)

InternalVariableIdx(sys) == sys.NbInternalVariables + Len(sys.Public) + Len(sys.Secret)

AddPublicVariable(sys, name) == [sys EXCEPT !.Public = Append(@, name)]

AddSecretVariable(sys, name) == [sys EXCEPT !.Secret = Append(@, name)]

AddInternalVariable(sys) == [sys EXCEPT !.NbInternalVariables = @ + 1]

GetNbConstraints(sys) == sys.NbConstraints

\* Field(): a copy of the modulus of the system
Field(sys) == sys.q

\* the call-data of an instruction: NbInputs() words from StartCallData, the
\* count being the first word when NbInputs() is negative
GetCallData(sys, instruction) ==
    LET blueprint == At(sys.Blueprints, instruction.BlueprintID)
        nbInputs == IF NbInputs(blueprint) < 0
                    THEN At(sys.CallData, instruction.StartCallData)
                    ELSE NbInputs(blueprint)
    IN  SubSeq(sys.CallData, instruction.StartCallData + 1,
               instruction.StartCallData + nbInputs)

\* variant: the start of the call-data is taken after the append
compressR1C_StartAfter(sys, c, bID) ==
    [system |-> [sys EXCEPT !.CallData = @ \o CompressR1C(c),
                            !.NbConstraints = @ + NbConstraints(At(sys.Blueprints, bID))],
     inst |-> [StartCallData |-> Len(sys.CallData) + Len(CompressR1C(c)),
               ConstraintOffset |-> U32(sys.NbConstraints),
               BlueprintID |-> bID]]

\* variant: a hint counts as a constraint
compressHint_CountsConstraint(sys, hm, bID) ==
    [system |-> [sys EXCEPT !.CallData = @ \o CompressHint(hm),
                            !.NbConstraints = @ + 1],
     inst |-> [StartCallData |-> Len(sys.CallData),
               ConstraintOffset |-> U32(sys.NbConstraints),
               BlueprintID |-> bID]]

\* compressR1C and compressHint: the system after the call and the instruction returned
compressR1C(sys, c, bID) ==
    [system |-> [sys EXCEPT !.CallData = @ \o CompressR1C(c),
                            !.NbConstraints = @ + NbConstraints(At(sys.Blueprints, bID))],
     inst |-> [StartCallData |-> Len(sys.CallData),
               ConstraintOffset |-> U32(sys.NbConstraints),
               BlueprintID |-> bID]]

compressHint(sys, hm, bID) ==
    [system |-> [sys EXCEPT !.CallData = @ \o CompressHint(hm)],
     inst |-> [StartCallData |-> Len(sys.CallData),
               ConstraintOffset |-> U32(sys.NbConstraints),
               BlueprintID |-> bID]]

\* appending an instruction: its call-data is copied into the shared buffer
\* and the instruction records where it starts
AddR1C(sys, c, bID) ==
    LET r == compressR1C(sys, c, bID)
    IN  [r.system EXCEPT !.Instructions = Append(@, r.inst)]

AddHint(sys, hm) ==
    LET r == compressHint(sys, hm, sys.genericHint)
    IN  [r.system EXCEPT !.Instructions = Append(@, r.inst)]

IsHintDesc(d) == "HintID" \in DOMAIN d

\* a system after appending the R1Cs and hint mappings descs[lo..hi] in order
RECURSIVE AddRange(_, _, _, _, _)
AddRange(sys, descs, bID, lo, hi) ==
    IF lo > hi THEN sys
    ELSE IF lo = hi
    THEN IF IsHintDesc(descs[lo]) THEN AddHint(sys, descs[lo]) ELSE AddR1C(sys, descs[lo], bID)
    ELSE LET mid == (lo + hi) \div 2
             left == AddRange(sys, descs, bID, lo, mid)
         IN  IF left.NbConstraints >= 0
             THEN AddRange(left, descs, bID, mid + 1, hi)
             ELSE left

AddAll(sys, descs, bID) == AddRange(sys, descs, bID, 1, Len(descs))

RECURSIVE AddCoeffs(_, _)
AddCoeffs(sys, es) ==
    IF es = <<>> THEN sys
    ELSE LET ct == AddCoeff([Coefficients |-> sys.Coefficients, mCoeffs |-> sys.mCoeffs],
                            Head(es))
         IN  AddCoeffs([sys EXCEPT !.Coefficients = ct.Coefficients,
                                   !.mCoeffs = ct.mCoeffs],
                       Tail(es))

RECURSIVE AddInternals(_, _)
AddInternals(sys, n) == IF n = 0 THEN sys ELSE AddInternals(AddInternalVariable(sys), n - 1)

RECURSIVE AddNames(_, _, _)
AddNames(sys, names, public) ==
    IF names = <<>> THEN sys
    ELSE AddNames(IF public THEN AddPublicVariable(sys, Head(names))
                  ELSE AddSecretVariable(sys, Head(names)),
                  Tail(names), public)

\* a system as a frontend leaves it: variables, coefficients, the generic R1C
\* blueprint, the instructions in order, the hints they need and their levels
BuildSystem(public, secret, nbInternal, coeffs, descs, deps, levels) ==
    LET s1 == AddNames(AddNames(NewR1CS, public, TRUE), secret, FALSE)
        s2 == AddCoeffs(AddInternals(s1, nbInternal), coeffs)
        s3 == AddBlueprint(s2, "BlueprintGenericR1C")
        s4 == AddAll(s3, descs, Len(s3.Blueprints) - 1)
    IN  [s4 EXCEPT !.MHintsDependencies = deps, !.Levels = levels]

(***************************************************************************)
(* Errors and hint functions                                               *)
(***************************************************************************)
\* a Go error value: its dynamic type, its text and the values formatted into it
Error(text, args) == [type |-> "error", text |-> text, args |-> args, names |-> {}]

ErrorNames(text, names) == [type |-> "error", text |-> text, args |-> <<>>, names |-> names]

ErrNil == [type |-> "nil", text |-> "", args |-> <<>>, names |-> {}]

\* GetHintID of the hint names used here
InvZeroID == 1
DecomposeID == 2
MuxIndicatorsID == 3

\* big.Int.ModInverse: the receiver is left unchanged when g has no inverse
ModInverse(g, n) ==
    IF \E y \in 1 .. (n - 1) : (g * y) % n = 1
    THEN CHOOSE y \in 1 .. (n - 1) : (g * y) % n = 1
    ELSE g

RECURSIVE Pow2(_)
Pow2(n) == IF n = 0 THEN 1 ELSE 2 * Pow2(n - 1)

HintResult(outputs, err) == [outputs |-> outputs, err |-> err, panic |-> ""]

HintPanic(outputs, msg) == [outputs |-> outputs, err |-> ErrNil, panic |-> msg]

InvZeroHint(qq, inputs, results) ==
    IF Len(results) = 0 \/ Len(inputs) = 0
    THEN HintPanic(results, "index out of range")
    ELSE IF inputs[1] = 0
         THEN HintResult([results EXCEPT ![1] = 0], ErrNil)
         ELSE HintResult([results EXCEPT ![1] = ModInverse(inputs[1], qq)], ErrNil)

DecomposeHint(m, inputs, outputs) ==
    IF Len(inputs) # 3
    THEN HintResult(outputs, Error("input must be 3 elements", <<>>))
    ELSE LET varSize == inputs[1]
             limbSize == inputs[2]
             val == inputs[3]
         IN  IF limbSize = 0
             THEN HintPanic(outputs, "integer divide by zero")
             ELSE LET nbLimbs == (varSize + limbSize - 1) \div limbSize
                  IN  IF Len(outputs) # nbLimbs
                      THEN HintResult(outputs,
                                      Error("need %d outputs instead to decompose", <<nbLimbs>>))
                      ELSE HintResult(
                               [i \in 1 .. Len(outputs) |->
                                   (val \div Pow2(limbSize * (i - 1))) % Pow2(limbSize)],
                               ErrNil)

muxIndicators(m, inputs, results) ==
    IF Len(inputs) = 0
    THEN HintPanic(results, "index out of range")
    ELSE HintResult([i \in 1 .. Len(results) |-> IF inputs[1] = i - 1 THEN 1 ELSE 0], ErrNil)

\* the call f(q, inputs, outputs) of a registered hint function
CallHint(f, qq, inputs, outputs) ==
    CASE f = "InvZeroHint" -> InvZeroHint(qq, inputs, outputs)
      [] f = "DecomposeHint" -> DecomposeHint(qq, inputs, outputs)
      [] f = "muxIndicators" -> muxIndicators(qq, inputs, outputs)

\* the global registry after the init functions of the hint packages
registry ==
    (InvZeroID :> "InvZeroHint") @@ (DecomposeID :> "DecomposeHint")
        @@ (MuxIndicatorsID :> "muxIndicators")

(***************************************************************************)
(* The solver.  A solver value s holds the fields of the solver struct,    *)
(* s.system being the system its embedded pointer refers to.  An operation *)
(* that can mutate the solver returns the solver after it.                 *)
(***************************************************************************)
Zeros(n) == [i \in 1 .. n |-> 0]

Outcome(s, err, panic) == [s |-> s, err |-> err, panic |-> panic]

\* the solver newSolver builds once its checks have passed
allocSolver(cs, witness, hintFunctions) ==
    LET witnessOffset == IF cs.Type = ConstrainSystemTypeR1CS THEN 1 ELSE 0
        nbWires == Len(cs.Public) + Len(cs.Secret) + cs.NbInternalVariables
        copied == Min(Len(witness), nbWires - witnessOffset)
        s == [system |-> cs,
              values |-> [i \in 1 .. nbWires |->
                            IF witnessOffset = 1 /\ i = 1 THEN 1
                            ELSE IF i > witnessOffset /\ i <= witnessOffset + copied
                                 THEN witness[i - witnessOffset]
                                 ELSE 0],
              solved |-> [i \in 1 .. nbWires |-> i <= witnessOffset + Len(witness)],
              nbSolved |-> Len(witness) + witnessOffset,
              mHintsFunctions |-> hintFunctions,
              a |-> Zeros(GetNbConstraints(cs)),
              b |-> Zeros(GetNbConstraints(cs)),
              c |-> Zeros(GetNbConstraints(cs)),
              q |-> Field(cs)]
    IN  IF witnessOffset + Len(witness) > nbWires \/ (witnessOffset = 1 /\ nbWires = 0)
        THEN Outcome("nil", ErrNil, "index out of range")
        ELSE Outcome(s, ErrNil, "")

\* variant: only the first missing hint is reported
missingHints_First(cs, hintFunctions) ==
    LET missing == {d \in DOMAIN cs.MHintsDependencies : d \notin DOMAIN hintFunctions}
    IN  IF missing = {} THEN {}
        ELSE {cs.MHintsDependencies[CHOOSE d \in missing : \A e \in missing : d <= e]}

\* the names of the hints the system needs and the function map lacks
missingHints(cs, hintFunctions) ==
    {cs.MHintsDependencies[id] :
        id \in {d \in DOMAIN cs.MHintsDependencies : d \notin DOMAIN hintFunctions}}

\* variant: the length of the witness is not checked
newSolver_NoSizeCheck(cs, witness, hintFunctions) ==
    IF missingHints(cs, hintFunctions) # {}
    THEN Outcome("nil",
                 ErrorNames("solver missing hint(s): %v", missingHints(cs, hintFunctions)),
                 "")
    ELSE allocSolver(cs, witness, hintFunctions)

newSolver(cs, witness, hintFunctions) ==
    LET witnessOffset == IF cs.Type = ConstrainSystemTypeR1CS THEN 1 ELSE 0
        expectedWitnessSize == Len(cs.Public) - witnessOffset + Len(cs.Secret)
        missing == missingHints(cs, hintFunctions)
    IN  IF Len(witness) # expectedWitnessSize
        THEN Outcome("nil",
                     Error("invalid witness size, got %d, expected %d",
                           <<Len(witness), expectedWitnessSize>>),
                     "")
        ELSE IF missing # {}
             THEN Outcome("nil", ErrorNames("solver missing hint(s): %v", missing), "")
             ELSE allocSolver(cs, witness, hintFunctions)

\* variant: a solved wire is overwritten
set_Unchecked(s, id, value) ==
    IF id + 1 > Len(s.solved)
    THEN Outcome(s, ErrNil, "index out of range")
    ELSE Outcome([s EXCEPT !.values[id + 1] = value,
                           !.solved[id + 1] = TRUE,
                           !.nbSolved = IF At(s.solved, id) THEN @ ELSE @ + 1],
                 ErrNil, "")

set(s, id, value) ==
    IF id + 1 > Len(s.solved)
    THEN Outcome(s, ErrNil, "index out of range")
    ELSE IF At(s.solved, id)
         THEN Outcome(s, ErrNil, "solving the same wire twice should never happen.")
         ELSE Outcome([s EXCEPT !.values[id + 1] = value,
                                !.solved[id + 1] = TRUE,
                                !.nbSolved = @ + 1],
                      ErrNil, "")

\* accumulateInto: the value of r after r += t.coeff * t.value
accumulateInto(s, t, r) ==
    LET cID == t.CID
        vID == t.VID
    IN  CASE cID = CoeffIdZero -> r
          [] cID = CoeffIdOne -> Add(r, At(s.values, vID))
          [] cID = CoeffIdTwo -> Add(r, Double(At(s.values, vID)))
          [] cID = CoeffIdMinusOne -> Sub(r, At(s.values, vID))
          [] OTHER -> Add(r, Mul(At(s.system.Coefficients, cID), At(s.values, vID)))

\* variant: a constant term is accumulated like a term on a wire
RECURSIVE hintInput_NoConstants(_, _, _)
hintInput_NoConstants(s, terms, v) ==
    IF terms = <<>> THEN v
    ELSE LET term == Head(terms)
         IN  hintInput_NoConstants(s, Tail(terms),
                       IF IsConstant(term)
                       THEN v
                       ELSE accumulateInto(s, term, v))

\* the value of one input linear expression of a hint
RECURSIVE hintInput(_, _, _)
hintInput(s, terms, v) ==
    IF terms = <<>> THEN v
    ELSE LET term == Head(terms)
         IN  hintInput(s, Tail(terms),
                       IF IsConstant(term)
                       THEN Add(v, At(s.system.Coefficients, term.CID))
                       ELSE accumulateInto(s, term, v))

\* the loop of solveWithHint that stores outputs[i..] into the wires start + i ..
RECURSIVE setOutputs(_, _, _, _)
setOutputs(s, outputs, start, i) ==
    IF i >= Len(outputs) THEN Outcome(s, ErrNil, "")
    ELSE LET r == set(s, start + i, At(outputs, i) % q)
         IN  IF r.panic # "" THEN r ELSE setOutputs(r.s, outputs, start, i + 1)

\* solveWithHint after the call of the hint function, which returned res
storeHintOutputs(s, h, res) ==
    IF res.panic # ""
    THEN Outcome(s, ErrNil, res.panic)
    ELSE [setOutputs(s, res.outputs, h.OutputRange.Start, 0) EXCEPT
              !.err = IF @ = ErrNil THEN res.err ELSE @]

solveWithHint(s, h) ==
    IF h.HintID \notin DOMAIN s.mHintsFunctions
    THEN Outcome(s, Error("missing hint function", <<>>), "")
    ELSE IF h.OutputRange.End - h.OutputRange.Start < 0
    THEN Outcome(s, ErrNil, "makeslice: len out of range")
    ELSE storeHintOutputs(s, h,
             CallHint(s.mHintsFunctions[h.HintID], s.q,
                      [i \in 1 .. h.Inputs.len |-> hintInput(s, Elems(h.Inputs.arr[i]), 0)],
                      Zeros(h.OutputRange.End - h.OutputRange.Start)))

\* variant: the quotient by -1 is not negated
divByCoeff_NoNegation(s, res, cID) ==
    CASE cID = CoeffIdOne -> [s |-> s, res |-> res, panic |-> ""]
      [] cID = CoeffIdMinusOne -> [s |-> s, res |-> res, panic |-> ""]
      [] cID = CoeffIdZero -> [s |-> s, res |-> res, panic |-> "division by 0"]
      [] OTHER -> [s |-> s, res |-> Div(res, At(s.system.Coefficients, cID)), panic |-> ""]

\* variant: the quotient is also stored into the coefficient table
divByCoeff_WritesTable(s, res, cID) ==
    CASE cID = CoeffIdOne -> [s |-> s, res |-> res, panic |-> ""]
      [] cID = CoeffIdMinusOne -> [s |-> s, res |-> Neg(res), panic |-> ""]
      [] cID = CoeffIdZero -> [s |-> s, res |-> res, panic |-> "division by 0"]
      [] OTHER -> [s |-> [s EXCEPT !.system.Coefficients[cID + 1] =
                                       Div(res, At(s.system.Coefficients, cID))],
                   res |-> Div(res, At(s.system.Coefficients, cID)),
                   panic |-> ""]

\* divByCoeff: res after res / t.Coeff; it reads the coefficient table of the solver
divByCoeff(s, res, cID) ==
    CASE cID = CoeffIdOne -> [s |-> s, res |-> res, panic |-> ""]
      [] cID = CoeffIdMinusOne -> [s |-> s, res |-> Neg(res), panic |-> ""]
      [] cID = CoeffIdZero -> [s |-> s, res |-> res, panic |-> "division by 0"]
      [] OTHER -> [s |-> s, res |-> Div(res, At(s.system.Coefficients, cID)), panic |-> ""]

\* variant: a further unsolved term replaces the one found before
RECURSIVE processLExp_LastWins(_, _, _, _)
processLExp_LastWins(s, l, p, locValue) ==
    IF l = <<>> \/ p.panic # "" THEN p
    ELSE IF Head(l).VID + 1 > Len(s.solved)
    THEN [p EXCEPT !.panic = "index out of range"]
    ELSE IF At(s.solved, Head(l).VID)
    THEN processLExp_LastWins(s, Tail(l),
                     [p EXCEPT !.acc[locValue] = accumulateInto(s, Head(l), @)], locValue)
    ELSE processLExp_LastWins(s, Tail(l),
                     [p EXCEPT !.termToCompute = Head(l), !.loc = locValue], locValue)

\* processLExp of solveR1C over the terms of one linear expression.  p holds
\* the accumulators a, b, c (acc[1], acc[2], acc[3]), loc, termToCompute and
\* a panic raised so far; locValue selects the accumulator
RECURSIVE processLExp(_, _, _, _)
processLExp(s, l, p, locValue) ==
    IF l = <<>> \/ p.panic # "" THEN p
    ELSE IF Head(l).VID + 1 > Len(s.solved)
    THEN [p EXCEPT !.panic = "index out of range"]
    ELSE IF At(s.solved, Head(l).VID)
    THEN processLExp(s, Tail(l),
                     [p EXCEPT !.acc[locValue] = accumulateInto(s, Head(l), @)], locValue)
    ELSE IF p.loc # 0
    THEN [p EXCEPT !.panic = "found more than one wire to instantiate"]
    ELSE processLExp(s, Tail(l), [p EXCEPT !.termToCompute = Head(l), !.loc = locValue],
                     locValue)

\* the three sweeps of solveR1C, accumulating into a[cID], b[cID], c[cID]
sweepR1C(s, cID, r) ==
    processLExp(s, Elems(r.O),
        processLExp(s, Elems(r.R),
            processLExp(s, Elems(r.L),
                [acc |-> <<At(s.a, cID), At(s.b, cID), At(s.c, cID)>>, loc |-> 0,
                 termToCompute |-> ZeroTerm, panic |-> ""],
                1),
            2),
        3)

unsatisfied(a, b, c) == Error("%s . %s != %s", <<a, b, c>>)

\* the end of solveR1C: the term value wire is divided by the coefficient of
\* the unsolved term and stored
instantiate(d, term) ==
    IF d.panic # "" THEN Outcome(d.s, ErrNil, d.panic) ELSE set(d.s, term.VID, d.res)

\* variant: with b = 0 (resp. a = 0) the wire is left alone
computeWire_SkipOnZero(s, cID, a, b, c, loc, term) ==
    CASE loc = 1 ->
           IF b # 0
           THEN instantiate(divByCoeff([s EXCEPT !.a[cID + 1] = Add(a, Sub(Div(c, b), a))],
                                       Sub(Div(c, b), a), term.CID), term)
           ELSE IF Mul(a, b) # c THEN Outcome(s, unsatisfied(a, b, c), "")
                ELSE Outcome(s, ErrNil, "")
      [] loc = 2 ->
           IF a # 0
           THEN instantiate(divByCoeff([s EXCEPT !.b[cID + 1] = Add(b, Sub(Div(c, a), b))],
                                       Sub(Div(c, a), b), term.CID), term)
           ELSE IF Mul(a, b) # c THEN Outcome(s, unsatisfied(a, b, c), "")
                ELSE Outcome(s, ErrNil, "")
      [] OTHER ->
           instantiate(divByCoeff([s EXCEPT !.c[cID + 1] = Add(c, Sub(Mul(a, b), c))],
                                  Sub(Mul(a, b), c), term.CID), term)

\* the switch on loc of solveR1C, s holding the accumulators a, b, c of the sweeps:
\*   1: wire = c / b - a, a += wire   2: wire = c / a - b, b += wire
\*   3: wire = a * b - c, c += wire
\* with b = 0 (resp. a = 0) the constraint is only checked and wire stays zero
computeWire(s, cID, a, b, c, loc, term) ==
    CASE loc = 1 ->
           IF b # 0
           THEN instantiate(divByCoeff([s EXCEPT !.a[cID + 1] = Add(a, Sub(Div(c, b), a))],
                                       Sub(Div(c, b), a), term.CID), term)
           ELSE IF Mul(a, b) # c THEN Outcome(s, unsatisfied(a, b, c), "")
                ELSE instantiate(divByCoeff(s, 0, term.CID), term)
      [] loc = 2 ->
           IF a # 0
           THEN instantiate(divByCoeff([s EXCEPT !.b[cID + 1] = Add(b, Sub(Div(c, a), b))],
                                       Sub(Div(c, a), b), term.CID), term)
           ELSE IF Mul(a, b) # c THEN Outcome(s, unsatisfied(a, b, c), "")
                ELSE instantiate(divByCoeff(s, 0, term.CID), term)
      [] OTHER ->
           instantiate(divByCoeff([s EXCEPT !.c[cID + 1] = Add(c, Sub(Mul(a, b), c))],
                                  Sub(Mul(a, b), c), term.CID), term)

\* solveR1C after the sweeps, which left p
solveSwept(s, cID, p) ==
    IF p.panic # ""
    THEN Outcome(s, ErrNil, p.panic)
    ELSE IF p.loc = 0
    THEN IF Mul(p.acc[1], p.acc[2]) # p.acc[3]
         THEN Outcome(s, unsatisfied(p.acc[1], p.acc[2], p.acc[3]), "")
         ELSE Outcome(s, ErrNil, "")
    ELSE computeWire(s, cID, p.acc[1], p.acc[2], p.acc[3], p.loc, p.termToCompute)

\* the solver once the sweeps have written a[cID], b[cID], c[cID]
swept(s, cID, p) ==
    [s EXCEPT !.a[cID + 1] = p.acc[1], !.b[cID + 1] = p.acc[2], !.c[cID + 1] = p.acc[3]]

solveR1Cwith(s, cID, p) == solveSwept(swept(s, cID, p), cID, p)

solveR1C(s, cID, r) ==
    IF cID + 1 > Len(s.a)
    THEN Outcome(s, ErrNil, "index out of range")
    ELSE solveR1Cwith(s, cID, sweepR1C(s, cID, r))

\* the scratch of a thread: an R1C and a HintMapping reused across instructions
NewScratch ==
    [tR1C |-> R1C(NilSlice, NilSlice, NilSlice),
     tHint |-> HintMapping(0, NilSlice, 0, 0)]

\* what processInstruction leaves: the outcome r of the solve and the scratch
processed1(r, scratch) ==
    [s |-> r.s, err |-> r.err, panic |-> r.panic, scratch |-> scratch]

processR1C(s, cID, tR1C, scratch) ==
    processed1(solveR1C(s, cID, tR1C), [scratch EXCEPT !.tR1C = tR1C])

processHint(s, tHint, scratch) ==
    processed1(solveWithHint(s, tHint), [scratch EXCEPT !.tHint = tHint])

\* processInstruction: the solver and the scratch after it, and what it returns
processInstruction(s, inst, scratch) ==
    IF IsBlueprintR1C(At(s.system.Blueprints, inst.BlueprintID))
    THEN processR1C(s, inst.ConstraintOffset,
                    DecompressR1C(scratch.tR1C, GetCallData(s.system, inst)), scratch)
    ELSE IF IsBlueprintHint(At(s.system.Blueprints, inst.BlueprintID))
    THEN processHint(s, DecompressHint(scratch.tHint, GetCallData(s.system, inst)), scratch)
    ELSE [s |-> s, err |-> ErrNil, panic |-> "", scratch |-> scratch]

(***************************************************************************)
(* The systems, witnesses and hint-function maps a Solve call is given     *)
(***************************************************************************)
T1(v) == Term(CoeffIdOne, v)

LE(terms) == SliceOf(terms)

Hint(id, inputs, start, end) == HintMapping(id, SliceOf(inputs), start, end)

\* Y = X with Y public and X secret: no constraint, no level
CircuitIdentity == BuildSystem(<<"1", "Y">>, <<"X">>, 0, <<>>, <<>>, <<>>, <<>>)

\* X * Y = Z with Z public (wire 1) and X, Y secret (wires 2, 3)
CircuitMul ==
    BuildSystem(<<"1", "Z">>, <<"X", "Y">>, 0, <<>>,
                <<R1C(LE(<<T1(2)>>), LE(<<T1(3)>>), LE(<<T1(1)>>))>>,
                <<>>, <<<<0>>>>)

\* X * inv = 1 with inv (wire 2) computed by the inv_zero hint on X (wire 1)
CircuitInv ==
    BuildSystem(<<"1">>, <<"X">>, 1, <<>>,
                <<Hint(InvZeroID, <<LE(<<T1(1)>>)>>, 2, 3),
                  R1C(LE(<<T1(1)>>), LE(<<T1(2)>>), LE(<<T1(0)>>))>>,
                InvZeroID :> "inv_zero",
                <<<<0>>, <<1>>>>)

\* one unknown on each side, with coefficients -1, 2 and the interned 3:
\*   X * Y = -w4,  (2 w5 + X) * Y = Z,  X * (3 w6 + 1) = w4
CircuitSides ==
    BuildSystem(<<"1", "Z">>, <<"X", "Y">>, 3, <<3>>,
                <<R1C(LE(<<T1(2)>>), LE(<<T1(3)>>), LE(<<Term(CoeffIdMinusOne, 4)>>)),
                  R1C(LE(<<Term(CoeffIdTwo, 5), T1(2)>>), LE(<<T1(3)>>), LE(<<T1(1)>>)),
                  R1C(LE(<<T1(2)>>), LE(<<Term(5, 6), T1(0)>>), LE(<<T1(4)>>))>>,
                <<>>, <<<<0, 1>>, <<2>>>>)

\* the two low bits w2, w3 of X by the decompose hint on the constants 2, 1
\* and X, and the recomposition (w2 + 2 w3) * 1 = X
CircuitDecompose ==
    BuildSystem(<<"1">>, <<"X">>, 2, <<>>,
                <<Hint(DecomposeID,
                       <<LE(<<Term(CoeffIdTwo, MaxUint32)>>),
                         LE(<<Term(CoeffIdOne, MaxUint32)>>),
                         LE(<<T1(1)>>)>>, 2, 4),
                  R1C(LE(<<T1(2), Term(CoeffIdTwo, 3)>>), LE(<<T1(0)>>), LE(<<T1(1)>>))>>,
                DecomposeID :> "decompose",
                <<<<0>>, <<1>>>>)

\* a hint with an empty output range, the assertion X * X = X, and an
\* internal wire (wire 2) no instruction writes
CircuitIncomplete ==
    BuildSystem(<<"1">>, <<"X">>, 1, <<>>,
                <<Hint(MuxIndicatorsID, <<LE(<<T1(1)>>)>>, 2, 2),
                  R1C(LE(<<T1(1)>>), LE(<<T1(1)>>), LE(<<T1(1)>>))>>,
                (MuxIndicatorsID :> "mux_indicators") @@ (InvZeroID :> "inv_zero"),
                <<<<0, 1>>>>)

\* malformed: a hint whose output range is the secret wire 1
CircuitHintOnWitness ==
    BuildSystem(<<"1">>, <<"X">>, 0, <<>>,
                <<Hint(MuxIndicatorsID, <<LE(<<T1(0)>>)>>, 1, 2)>>,
                MuxIndicatorsID :> "mux_indicators",
                <<<<0>>>>)

\* malformed: w2 * w3 = X has two unsolved wires
CircuitTwoUnknowns ==
    BuildSystem(<<"1">>, <<"X">>, 2, <<>>,
                <<R1C(LE(<<T1(2)>>), LE(<<T1(3)>>), LE(<<T1(1)>>))>>,
                <<>>, <<<<0>>>>)

\* one level of two instructions: the assertion X * X = X, then X * 1 = w2
CircuitAssertFirst ==
    BuildSystem(<<"1">>, <<"X">>, 1, <<>>,
                <<R1C(LE(<<T1(1)>>), LE(<<T1(1)>>), LE(<<T1(1)>>)),
                  R1C(LE(<<T1(1)>>), LE(<<T1(0)>>), LE(<<T1(2)>>))>>,
                <<>>, <<<<0, 1>>>>)

\* the instructions of the wide level of CircuitParallel
ParallelWidth == minWorkPerCPU + 1
\* positions in the wide level of the assertions X * X = X and X * X = 1
AssertPositions == {10, 40}

\* the wire written by the instruction at position k of the wide level
WideWire(k) == 3 + k - Cardinality({p \in AssertPositions : p < k})

\* level 0: X * X = w2; level 1 (wide): X * 1 = w for every position but the
\* assertions, X * X = X at the first and X * X = 1 at the others;
\* level 2: w3 * w2 = the last wire
CircuitParallel ==
    LET wide == [k \in 1 .. ParallelWidth |->
                    IF k - 1 \in AssertPositions
                    THEN R1C(LE(<<T1(1)>>), LE(<<T1(1)>>),
                             LE(<<T1(IF \A p \in AssertPositions : k - 1 <= p
                                     THEN 1 ELSE 0)>>))
                    ELSE R1C(LE(<<T1(1)>>), LE(<<T1(0)>>), LE(<<T1(WideWire(k - 1))>>))]
        last == WideWire(ParallelWidth)
    IN  BuildSystem(<<"1">>, <<"X">>, last - 1, <<>>,
                    <<R1C(LE(<<T1(1)>>), LE(<<T1(1)>>), LE(<<T1(2)>>))>>
                        \o wide
                        \o <<R1C(LE(<<T1(3)>>), LE(<<T1(2)>>), LE(<<T1(last)>>))>>,
                    <<>>,
                    <<<<0>>, [k \in 1 .. ParallelWidth |-> k], <<ParallelWidth + 1>>>>)

Systems ==
    {CircuitIdentity, CircuitMul, CircuitInv, CircuitSides, CircuitDecompose, CircuitIncomplete,
     CircuitHintOnWitness, CircuitTwoUnknowns, CircuitParallel, CircuitAssertFirst}

\* witness vectors of the expected length, one shorter and one longer
Witnesses(sys) ==
    LET n == Len(sys.Public) - 1 + Len(sys.Secret)
    IN  UNION {[1 .. m -> 0 .. MaxWitnessValue] : m \in {n - 1, n, n + 1}}

\* the hint-function maps of the solver options: the registry, the registry
\* without inv_zero, without any hint, and with inv_zero bound to another function
HintFunctionMaps(sys) ==
    IF DOMAIN sys.MHintsDependencies = {}
    THEN {registry}
    ELSE {registry,
          [id \in DOMAIN registry \ {InvZeroID} |-> registry[id]],
          <<>>,
          [registry EXCEPT ![InvZeroID] = "DecomposeHint"]}

(***************************************************************************)
(* State                                                                   *)
(***************************************************************************)
VARIABLES
    cs,             \* the constraint system Solve is called on
    witness,        \* the witness vector given to Solve
    hintFunctions,  \* opt.HintFunctions
    solver,         \* the fields of the solver struct (its system is cs)
    pc,             \* where the thread that called Solve is
    lvl,            \* index in Levels of the level run is at
    idx,            \* position in a sequential level
    disp,           \* the locals of the dispatch loop of a parallel level
    chTasks,        \* the task channel: slices of instruction indexes
    chError,        \* the error channel
    closed,         \* the deferred close of both channels has run
    wg,             \* the counter of the WaitGroup
    workers,        \* the goroutines of the pool
    scratch,        \* the scratch of the thread that called Solve
    result,         \* what the current Solve call returned
    results,        \* what the Solve calls completed so far returned
    processed,      \* the instructions processInstruction was called on in this call
    failed          \* those for which it returned an error

\* the state of a Solve call
solverVars ==
    <<cs, witness, hintFunctions, solver, pc, lvl, idx, disp, chTasks, chError, closed,
      wg, workers, scratch, result, results, processed, failed>>

VARIABLES
    table,          \* a CoeffTable
    coeffLog,       \* the calls made on it: <<value, id returned, function called>>
    dest,           \* a scratch a blueprint decompresses into
    sent,           \* the R1C or HintMapping last compressed
    heap,           \* the backing arrays of the witness vectors, by address
    wit,            \* a witness: the address of its vector, nbPublic, nbSecret
    pub,            \* the witness Public() returned
    stream,         \* the bytes WriteTo wrote, and the witness it wrote
    readBack,       \* the witness ReadFrom filled from them
    wres,           \* what the last call on the witness was given and returned
    shadow,         \* the values each witness was last given, by witness
    globalRegistry, \* the registry of the hintsolver package
    registerOnce,   \* the sync.Once of RegisterHints has fired
    regLog,         \* the hints RegisterHint was given so far, in order
    header,         \* the ScalarField of a serialized system
    decoded,        \* what ReadFrom on it left and returned
    ops,            \* a solver, the operation called on it and what it left
    lb,             \* a system under construction: instructions, wire levels, Levels
    dp,             \* a level in the loop of run: the CPUs, the plan, the tasks sent
    sb              \* a system the frontend builds, and what each call was given and returned

coeffVars == <<table, coeffLog>>

blueprintVars == <<dest, sent>>

witnessVars == <<heap, wit, pub, stream, readBack, wres, shadow>>

registryVars == <<globalRegistry, registerOnce, regLog>>

serialVars == <<header, decoded>>

opsVars == <<ops>>

levelVars == <<lb>>

dispatchVars == <<dp>>

buildVars == <<sb>>

libVars ==
    <<coeffVars, blueprintVars, witnessVars, registryVars, serialVars, opsVars, levelVars, dispatchVars,
      buildVars>>

vars == <<solverVars, libVars>>

(***************************************************************************)
(* A coefficient table under AddCoeff and MakeTerm calls                   *)
(***************************************************************************)
CoeffAtRest ==
    /\ table = newCoeffTable
    /\ coeffLog = <<>>

CallAddCoeff ==
    /\ Len(coeffLog) < MaxCoeffCalls
    /\ \E e \in Fp :
           /\ table' = AddCoeff(table, e)
           /\ coeffLog' = Append(coeffLog, <<e, AddCoeffID(table, e), "AddCoeff">>)
    /\ UNCHANGED <<solverVars, blueprintVars, witnessVars, registryVars, serialVars, opsVars, levelVars, dispatchVars,
                   buildVars>>

CallMakeTerm ==
    /\ Len(coeffLog) < MaxCoeffCalls
    /\ \E e \in Fp, v \in {0, MaxUint32} :
           /\ table' = MakeTerm(table, e, v).table
           /\ coeffLog' = Append(coeffLog, <<e, MakeTerm(table, e, v).term.CID, "MakeTerm">>)
    /\ UNCHANGED <<solverVars, blueprintVars, witnessVars, registryVars, serialVars, opsVars, levelVars, dispatchVars,
                   buildVars>>

\* WriteTo: gob encodes the exported fields only, so of the table the stream
\* holds Coefficients and not mCoeffs
EncodeCoeffTable(ct) == ct.Coefficients

\* ReadFrom: the table is set to newCoeffTable(0), then Decode stores the
\* Coefficients of the stream into it
DecodeCoeffTable(bytes) ==
    [Coefficients |-> bytes, mCoeffs |-> newCoeffTable.mCoeffs]

\* the system holding the table is written with WriteTo and read back with
\* ReadFrom
CallTableRoundTrip ==
    /\ Len(coeffLog) < MaxCoeffCalls
    /\ table' = DecodeCoeffTable(EncodeCoeffTable(table))
    /\ coeffLog' = Append(coeffLog, <<0, 0, "ReadFrom">>)
    /\ UNCHANGED <<solverVars, blueprintVars, witnessVars, registryVars, serialVars, opsVars, levelVars, dispatchVars,
                   buildVars>>

(***************************************************************************)
(* A scratch under compress-decompress round trips of the generic          *)
(* blueprints                                                              *)
(***************************************************************************)
\* linear expressions of length 0, 1 and 2, one holding a constant term
RoundTripExpressions ==
    {<<>>, <<Term(CoeffIdOne, 1)>>, <<Term(5, 2), Term(3, MaxUint32)>>}

RoundTripR1Cs ==
    {R1C(SliceOf(l), SliceOf(r), SliceOf(l \o r)) :
        l \in RoundTripExpressions, r \in RoundTripExpressions}

\* a hint id wider than a word of call-data
WideHintID == MaxUint32 + 1 + InvZeroID

\* hint ids are 64-bit: the ids that fit a word of call-data and one that does not
HintIDs == {InvZeroID, MaxUint32, WideHintID}

RoundTripHints ==
    {HintMapping(id, SliceOf(inputs), range[1], range[2]) :
        id \in HintIDs,
        inputs \in {<<>>,
                    <<SliceOf(<<Term(5, 2), Term(3, MaxUint32)>>)>>,
                    <<SliceOf(<<Term(CoeffIdOne, 1)>>), SliceOf(<<>>),
                      SliceOf(<<Term(5, 2), Term(3, MaxUint32)>>)>>},
        range \in {<<0, 0>>, <<2, MaxUint32>>}}

NothingSent ==
    [kind |-> "none", n |-> 0, r1c |-> R1C(NilSlice, NilSlice, NilSlice),
     hint |-> HintMapping(0, NilSlice, 0, 0)]

BlueprintAtRest ==
    /\ dest = NewScratch
    /\ sent = NothingSent

\* bc.DecompressR1C(&dest.tR1C, bc.CompressR1C(&c))
RoundTripR1C ==
    /\ sent.n < MaxRoundTrips
    /\ \E c \in RoundTripR1Cs :
           /\ dest' = [dest EXCEPT !.tR1C = DecompressR1C(dest.tR1C, CompressR1C(c))]
           /\ sent' = [NothingSent EXCEPT !.kind = "r1c", !.n = sent.n + 1, !.r1c = c]
    /\ UNCHANGED <<solverVars, coeffVars, witnessVars, registryVars, serialVars, opsVars, levelVars, dispatchVars,
                   buildVars>>

\* bc.DecompressHint(&dest.tHint, bc.CompressHint(h))
RoundTripHint ==
    /\ sent.n < MaxRoundTrips
    /\ \E h \in RoundTripHints :
           /\ dest' = [dest EXCEPT !.tHint = DecompressHint(dest.tHint, CompressHint(h))]
           /\ sent' = [NothingSent EXCEPT !.kind = "hint", !.n = sent.n + 1, !.hint = h]
    /\ UNCHANGED <<solverVars, coeffVars, witnessVars, registryVars, serialVars, opsVars, levelVars, dispatchVars,
                   buildVars>>

(***************************************************************************)
(* Witnesses.  A vector is a slice: the address of its backing array in    *)
(* the heap (0 for nil) and its length.                                    *)
(***************************************************************************)
Vector(addr, n) == [addr |-> addr, len |-> n]

\* the elements of a vector
VectorOf(h, v) == IF v.addr = 0 THEN <<>> ELSE SubSeq(h[v.addr], 1, v.len)

\* make(fr.Vector, size): the heap after it and the vector
newVector(h, size) ==
    [heap |-> Append(h, [k \in 1 .. size |-> 0]), vector |-> Vector(Len(h) + 1, size)]

resize(h, v, n) == newVector(h, n)

\* variant: the first n elements are resliced, not copied
newFrom_Reslice(h, from, n) == [heap |-> h, vector |-> Vector(from.addr, n)]

\* newFrom: a := make(fr.Vector, n); copy(a, wt)
newFrom(h, from, n) ==
    [heap |-> Append(h, [k \in 1 .. n |-> IF k <= from.len THEN h[from.addr][k] ELSE 0]),
     vector |-> Vector(Len(h) + 1, n)]

\* a value read from the source of Fill: an element, or a value SetInterface rejects
SourceValue(v) == [ok |-> TRUE, v |-> v]

NotConvertible == [ok |-> FALSE, v |-> 0]

\* set(v, index, value) of the witness package: the heap after it and the error
witnessSet(h, v, index, value) ==
    IF index >= v.len
    THEN [heap |-> h, err |-> Error("out of bounds", <<>>)]
    ELSE IF ~value.ok
    THEN [heap |-> h, err |-> Error("can't set fr.Element with %T", <<>>)]
    ELSE [heap |-> [h EXCEPT ![v.addr][index + 1] = value.v], err |-> ErrNil]

\* what a call on a witness leaves: the heap, the witness, the error returned
\* and the panic raised
WitnessOutcome(h, wt, err, panic) == [heap |-> h, wit |-> wt, err |-> err, panic |-> panic]

\* variant: Fill does not compare the number of values read with n
fillEnd_NoCount(h, wt, i, n) == WitnessOutcome(h, wt, ErrNil, "")

\* the end of Fill, the source being drained after i values
fillEnd(h, wt, i, n) ==
    IF i # n
    THEN WitnessOutcome(h, wt, Error("expected %d values, filled only %d", <<n, i>>), "")
    ELSE WitnessOutcome(h, wt, ErrNil, "")

\* the loop of Fill over the values the source still yields, i being filled
RECURSIVE fillLoop(_, _, _, _, _)
fillLoop(h, wt, values, i, n) ==
    IF values = <<>> THEN fillEnd(h, wt, i, n)
    ELSE IF i >= n
    THEN WitnessOutcome(h, wt, ErrNil, "chan of values returns more elements than expected")
    ELSE IF witnessSet(h, wt.vector, i, Head(values)).err # ErrNil
    THEN WitnessOutcome(h, wt, witnessSet(h, wt.vector, i, Head(values)).err, "")
    ELSE fillLoop(witnessSet(h, wt.vector, i, Head(values)).heap, wt, Tail(values), i + 1, n)

Fill(h, wt, nbPublic, nbSecret, values) ==
    fillLoop(resize(h, wt.vector, nbPublic + nbSecret).heap,
             [vector |-> resize(h, wt.vector, nbPublic + nbSecret).vector,
              nbPublic |-> U32(nbPublic), nbSecret |-> U32(nbSecret)],
             values, 0, nbPublic + nbSecret)

\* Public: the heap after it and the witness returned
Public(h, wt) ==
    [heap |-> newFrom(h, wt.vector, wt.nbPublic).heap,
     wit |-> [vector |-> newFrom(h, wt.vector, wt.nbPublic).vector,
              nbPublic |-> wt.nbPublic, nbSecret |-> 0]]

\* variant: the low byte first
BigEndian_LowFirst(x) == <<x % 256, (x \div 256) % 256>>

\* binary.BigEndian on a uint32, and back
BigEndian(x) == <<(x \div 256) % 256, x % 256>>

Uint32(bytes) == bytes[1] * 256 + bytes[2]

\* fr.Vector.WriteTo: [uint32(len(vector)) | elements], an element being its
\* big-endian bytes
VectorWriteTo(elements) == BigEndian(U32(Len(elements))) \o elements

\* fr.Vector.ReadFrom: the elements read and whether the bytes hold a vector
VectorReadFrom(bytes) ==
    IF Len(bytes) < 2 THEN [ok |-> FALSE, elements |-> <<>>]
    ELSE IF Len(bytes) < 2 + Uint32(bytes) THEN [ok |-> FALSE, elements |-> <<>>]
    ELSE IF \E k \in 1 .. Uint32(bytes) : bytes[2 + k] >= q
    THEN [ok |-> FALSE, elements |-> <<>>]
    ELSE [ok |-> TRUE, elements |-> SubSeq(bytes, 3, 2 + Uint32(bytes))]

\* witness.WriteTo: the bytes written
WriteTo(h, wt) ==
    BigEndian(wt.nbPublic) \o BigEndian(wt.nbSecret) \o VectorWriteTo(VectorOf(h, wt.vector))

\* witness.ReadFrom
ReadFrom(h, wt, bytes) ==
    IF Len(bytes) < 2
    THEN WitnessOutcome(h, wt, Error("unexpected EOF", <<>>), "")
    ELSE IF Len(bytes) < 4
    THEN WitnessOutcome(h, [wt EXCEPT !.nbPublic = Uint32(bytes)],
                        Error("unexpected EOF", <<>>), "")
    ELSE IF ~VectorReadFrom(SubSeq(bytes, 5, Len(bytes))).ok
    THEN WitnessOutcome(h, [wt EXCEPT !.nbPublic = Uint32(bytes),
                                      !.nbSecret = Uint32(SubSeq(bytes, 3, 4))],
                        Error("invalid fr.Vector", <<>>), "")
    ELSE WitnessOutcome(
             Append(h, VectorReadFrom(SubSeq(bytes, 5, Len(bytes))).elements),
             [vector |-> Vector(Len(h) + 1,
                                Len(VectorReadFrom(SubSeq(bytes, 5, Len(bytes))).elements)),
              nbPublic |-> Uint32(bytes),
              nbSecret |-> Uint32(SubSeq(bytes, 3, 4))],
             ErrNil, "")

\* no witness
NilWitness == [vector |-> Vector(0, 0), nbPublic |-> 0, nbSecret |-> 0]

\* New(): a witness over an empty vector, the first array of the heap
NewWitness == [vector |-> Vector(1, 0), nbPublic |-> 0, nbSecret |-> 0]

NoStream == [written |-> FALSE, bytes |-> <<>>, nbPublic |-> 0, nbSecret |-> 0,
             elements |-> <<>>]

NoCall == [op |-> "New", nbPublic |-> 0, nbSecret |-> 0, source |-> <<>>, err |-> ErrNil,
           panic |-> "", writes |-> 0]

WitnessAtRest ==
    /\ heap = <<<<>>>>
    /\ wit = NewWitness
    /\ pub = NilWitness
    /\ stream = NoStream
    /\ readBack = NilWitness
    /\ wres = NoCall
    /\ shadow = [wit |-> <<>>, pub |-> <<>>]

\* what the source of Fill yields: n values, one fewer or one more
Sources(n) ==
    UNION {[1 .. m -> {SourceValue(1), SourceValue(q - 1), NotConvertible}] :
              m \in {k \in {n - 1, n, n + 1} : k >= 0}}

\* the effect of w.Fill(nbPublic, nbSecret, values), which left r
Filled(nbPublic, nbSecret, values, r) ==
    /\ heap' = r.heap
    /\ wit' = r.wit
    /\ wres' = [NoCall EXCEPT !.op = "Fill", !.nbPublic = nbPublic, !.nbSecret = nbSecret,
                              !.source = values, !.err = r.err, !.panic = r.panic]
    /\ shadow' = [shadow EXCEPT !.wit = VectorOf(r.heap, r.wit.vector)]

CallFill ==
    /\ wres.op = "New"
    /\ \E nbPublic \in 0 .. MaxNbPublic, nbSecret \in 0 .. MaxNbSecret :
           \E values \in Sources(nbPublic + nbSecret) :
               Filled(nbPublic, nbSecret, values, Fill(heap, wit, nbPublic, nbSecret, values))
    /\ UNCHANGED <<pub, stream, readBack>>
    /\ UNCHANGED <<solverVars, coeffVars, blueprintVars, registryVars, serialVars, opsVars, levelVars, dispatchVars,
                   buildVars>>

CallPublic ==
    /\ wres.panic = ""
    /\ pub = NilWitness
    /\ heap' = Public(heap, wit).heap
    /\ pub' = Public(heap, wit).wit
    /\ shadow' = [shadow EXCEPT !.pub = SubSeq(VectorOf(heap, wit.vector), 1, wit.nbPublic)]
    /\ wres' = [wres EXCEPT !.op = "Public"]
    /\ UNCHANGED <<wit, stream, readBack>>
    /\ UNCHANGED <<solverVars, coeffVars, blueprintVars, registryVars, serialVars, opsVars, levelVars, dispatchVars,
                   buildVars>>

\* the caller writes an element of the vector of one of the two witnesses
WriteVector ==
    /\ pub # NilWitness
    /\ wres.writes < MaxVectorWrites
    /\ \E which \in {"wit", "pub"}, v \in {2, 3} :
           LET vec == IF which = "wit" THEN wit.vector ELSE pub.vector
           IN  \E k \in 1 .. vec.len :
                   /\ heap' = [heap EXCEPT ![vec.addr][k] = v]
                   /\ shadow' = [shadow EXCEPT ![which][k] = v]
    /\ wres' = [wres EXCEPT !.op = "write", !.writes = @ + 1]
    /\ UNCHANGED <<wit, pub, stream, readBack>>
    /\ UNCHANGED <<solverVars, coeffVars, blueprintVars, registryVars, serialVars, opsVars, levelVars, dispatchVars,
                   buildVars>>

CallWriteTo ==
    /\ wres.panic = ""
    /\ ~stream.written
    /\ stream' = [written |-> TRUE, bytes |-> WriteTo(heap, wit),
                  nbPublic |-> wit.nbPublic, nbSecret |-> wit.nbSecret,
                  elements |-> VectorOf(heap, wit.vector)]
    /\ wres' = [wres EXCEPT !.op = "WriteTo"]
    /\ UNCHANGED <<heap, wit, pub, readBack, shadow>>
    /\ UNCHANGED <<solverVars, coeffVars, blueprintVars, registryVars, serialVars, opsVars, levelVars, dispatchVars,
                   buildVars>>

\* ReadFrom on a new witness, from the bytes written
ReadFromNew(h, bytes) ==
    ReadFrom(Append(h, <<>>), [NewWitness EXCEPT !.vector = Vector(Len(h) + 1, 0)], bytes)

CallReadFrom ==
    /\ stream.written
    /\ readBack = NilWitness
    /\ heap' = ReadFromNew(heap, stream.bytes).heap
    /\ readBack' = ReadFromNew(heap, stream.bytes).wit
    /\ wres' = [wres EXCEPT !.op = "ReadFrom", !.err = ReadFromNew(heap, stream.bytes).err]
    /\ UNCHANGED <<wit, pub, stream, shadow>>
    /\ UNCHANGED <<solverVars, coeffVars, blueprintVars, registryVars, serialVars, opsVars, levelVars, dispatchVars,
                   buildVars>>

\* the encodings a reader may be handed: any counts and any vector, whether
\* or not WriteTo could have written them
Encodings ==
    {BigEndian(nbPublic) \o BigEndian(nbSecret) \o VectorWriteTo(elements) :
        nbPublic \in 0 .. MaxNbPublic, nbSecret \in 0 .. MaxNbSecret,
        elements \in UNION {[1 .. n -> {1, q - 1}] : n \in 0 .. MaxNbPublic + MaxNbSecret}}

\* ReadFrom on a new witness, from bytes that come from elsewhere
CallReadFromEncoding ==
    /\ readBack = NilWitness
    /\ \E bytes \in Encodings :
           /\ heap' = ReadFromNew(heap, bytes).heap
           /\ readBack' = ReadFromNew(heap, bytes).wit
           /\ wres' = [wres EXCEPT !.op = "ReadFrom", !.source = bytes,
                                   !.err = ReadFromNew(heap, bytes).err]
    /\ UNCHANGED <<wit, pub, stream, shadow>>
    /\ UNCHANGED <<solverVars, coeffVars, blueprintVars, registryVars, serialVars, opsVars, levelVars, dispatchVars,
                   buildVars>>

(***************************************************************************)
(* The global hint registry                                                *)
(***************************************************************************)
\* the names of the hints of the packages, at the position GetHintID gives them
HintNames ==
    <<"inv_zero", "decompose", "mux_indicators", "n_trits", "nnaf", "ith_bit", "n_bits",
      "step_output", "map_indicators", "count">>

GetHintID(name) == CHOOSE id \in DOMAIN HintNames : HintNames[id] = name

NewHint(name, fn) == [ID |-> GetHintID(name), Fn |-> fn]

\* variant: a hint registered again replaces the function
RECURSIVE RegisterHint_Overwrite(_, _)
RegisterHint_Overwrite(reg, hints) ==
    IF hints = <<>> THEN reg
    ELSE RegisterHint_Overwrite(
             [id \in DOMAIN reg \cup {Head(hints).ID} |->
                 IF id = Head(hints).ID THEN Head(hints).Fn ELSE reg[id]],
             Tail(hints))

\* RegisterHint(hints...): the registry after it; it returns at the first
\* hint whose id is registered
RECURSIVE RegisterHint(_, _)
RegisterHint(reg, hints) ==
    IF hints = <<>> THEN reg
    ELSE IF Head(hints).ID \in DOMAIN reg THEN reg
    ELSE RegisterHint([id \in DOMAIN reg \cup {Head(hints).ID} |->
                          IF id = Head(hints).ID THEN Head(hints).Fn ELSE reg[id]],
                      Tail(hints))

\* selector.GetHints()
GetHints ==
    <<NewHint("step_output", "stepOutput"), NewHint("mux_indicators", "muxIndicators"),
      NewHint("map_indicators", "mapIndicators")>>

\* the RegisterHint calls of registerHints, in order
registerHintsCalls ==
    <<<<NewHint("n_trits", "NTrits")>>, <<NewHint("nnaf", "NNAF")>>,
      <<NewHint("ith_bit", "IthBit")>>, <<NewHint("n_bits", "NBits")>>,
      GetHints,
      <<NewHint("count", "CountHint")>>, <<NewHint("decompose", "DecomposeHint")>>>>

RECURSIVE registerHints(_, _)
registerHints(reg, calls) ==
    IF calls = <<>> THEN reg
    ELSE registerHints(RegisterHint(reg, Head(calls)), Tail(calls))

\* the hints a caller registers: of a registered name or a new one, under
\* either of two functions
CallerHints ==
    {NewHint(name, fn) : name \in {"inv_zero", "n_bits", "count"},
                         fn \in {"InvZeroHint", "NBits"}}

RegistryAtRest ==
    /\ globalRegistry = registry
    /\ registerOnce = FALSE
    /\ regLog = <<>>

\* a call RegisterHint(hints...) with one or two hints
CallRegisterHint ==
    /\ \E hints \in {<<h>> : h \in CallerHints} \cup (CallerHints \X CallerHints) :
           /\ globalRegistry' = RegisterHint(globalRegistry, hints)
           /\ regLog' = hints
    /\ UNCHANGED registerOnce
    /\ UNCHANGED <<solverVars, coeffVars, blueprintVars, witnessVars, serialVars, opsVars, levelVars, dispatchVars,
                   buildVars>>

\* a call RegisterHints(): registerHints runs the first time only
CallRegisterHints ==
    /\ globalRegistry' =
           IF registerOnce THEN globalRegistry
           ELSE registerHints(globalRegistry, registerHintsCalls)
    /\ registerOnce' = TRUE
    /\ regLog' = <<>>
    /\ UNCHANGED <<solverVars, coeffVars, blueprintVars, witnessVars, serialVars, opsVars, levelVars, dispatchVars,
                   buildVars>>

(***************************************************************************)
(* Reading a serialized system: the scalar-field header                    *)
(***************************************************************************)
\* the digits big.Int.SetString(s, 16) accepts, at their value plus one
HexDigits ==
    <<"0", "1", "2", "3", "4", "5", "6", "7", "8", "9", "a", "b", "c", "d", "e", "f">>

IsHex(str) ==
    /\ str # <<>>
    /\ \A k \in DOMAIN str : \E d \in DOMAIN HexDigits : HexDigits[d] = str[k]

\* the number a string of hex digits denotes
RECURSIVE HexValue(_)
HexValue(str) ==
    IF str = <<>> THEN 0
    ELSE 16 * HexValue(SubSeq(str, 1, Len(str) - 1))
             + (CHOOSE d \in DOMAIN HexDigits : HexDigits[d] = str[Len(str)]) - 1

\* CheckSerializationHeader: the error returned and system.q after it
CheckSerializationHeader(ScalarField, qBefore) ==
    IF ~IsHex(ScalarField)
    THEN [err |-> Error("when parsing serialized modulus: %s", <<ScalarField>>),
          q |-> qBefore]
    ELSE [err |-> ErrNil, q |-> HexValue(ScalarField)]

\* system.ReadFrom on a stream that decodes (intact) or not into a system
\* whose ScalarField is the header
SystemReadFrom(ScalarField, intact) ==
    IF ~intact
    THEN [err |-> Error("gob: decoding failed", <<>>), q |-> 0]
    ELSE CheckSerializationHeader(ScalarField, 0)

\* the headers of the streams read: strings of at most MaxHeaderLen characters
MaxHeaderLen == 3

Headers == UNION {[1 .. n -> {"0", "7", "b", "g"}] : n \in 0 .. MaxHeaderLen}

NotRead == [done |-> FALSE, err |-> ErrNil, q |-> 0]

SerialAtRest ==
    /\ header = [ScalarField |-> <<"7">>, intact |-> TRUE]
    /\ decoded = NotRead

CallSystemReadFrom ==
    /\ ~decoded.done
    /\ decoded' = [done |-> TRUE,
                   err |-> SystemReadFrom(header.ScalarField, header.intact).err,
                   q |-> SystemReadFrom(header.ScalarField, header.intact).q]
    /\ UNCHANGED header
    /\ UNCHANGED <<solverVars, coeffVars, blueprintVars, witnessVars, registryVars, opsVars, levelVars, dispatchVars,
                   buildVars>>



Workers == 1 .. NumCPU

\* the zero value of the solver struct
NoSolver ==
    [values |-> <<>>, solved |-> <<>>, nbSolved |-> 0, mHintsFunctions |-> <<>>,
     a |-> <<>>, b |-> <<>>, c |-> <<>>, q |-> 0]

\* the solver with its embedded system pointer dereferenced, and back
Embed(sys, sv) ==
    [system |-> sys, values |-> sv.values, solved |-> sv.solved, nbSolved |-> sv.nbSolved,
     mHintsFunctions |-> sv.mHintsFunctions, a |-> sv.a, b |-> sv.b, c |-> sv.c, q |-> sv.q]

Fields(s) ==
    [values |-> s.values, solved |-> s.solved, nbSolved |-> s.nbSolved,
     mHintsFunctions |-> s.mHintsFunctions, a |-> s.a, b |-> s.b, c |-> s.c, q |-> s.q]

NoResult == [kind |-> "none", err |-> ErrNil, W |-> <<>>, A |-> <<>>, B |-> <<>>, C |-> <<>>]

ErrResult(err) ==
    [kind |-> "error", err |-> err, W |-> <<>>, A |-> <<>>, B |-> <<>>, C |-> <<>>]

PanicResult(msg) ==
    [kind |-> "panic", err |-> Error(msg, <<>>), W |-> <<>>, A |-> <<>>, B |-> <<>>,
     C |-> <<>>]

\* the R1CSSolution Solve formats from the solver
R1CSSolution(sv) ==
    [kind |-> "solution", err |-> ErrNil, W |-> sv.values, A |-> sv.a, B |-> sv.b,
     C |-> sv.c]

NoDisp == [nbTasks |-> 0, nbIterationsPerCpus |-> 0, extraTasks |-> 0,
           extraTasksOffset |-> 0, i |-> 0]

IdleWorker ==
    [state |-> "none", task |-> <<>>, pos |-> 0, err |-> ErrNil, scratch |-> NewScratch]

(***************************************************************************)
(* The operations of a solver, each applied to a solver newSolver built    *)
(***************************************************************************)
\* the system of that solver: ONE (wire 0), the secret wires X and Y (wires 1
\* and 2), the internal wires 3, 4 and 5, the interned coefficient 3 (id 5)
\* and one constraint
OpsSystem ==
    BuildSystem(<<"1">>, <<"X", "Y">>, 3, <<3>>,
                <<R1C(LE(<<>>), LE(<<>>), LE(<<>>))>>,
                (InvZeroID :> "inv_zero") @@ (DecomposeID :> "decompose"),
                <<<<0>>>>)

\* the coefficient ids of the terms on unsolved wires
OpsCoeffIds ==
    {CoeffIdZero, CoeffIdOne, CoeffIdTwo, CoeffIdMinusOne, CoeffIdMinusTwo,
     Len(newCoeffTable.Coefficients)}

\* linear expressions over solved wires only, and with terms on the unsolved
\* wires 3 and 4
OpsSolvedSides == {<<>>, <<T1(1)>>, <<T1(2)>>, <<Term(CoeffIdTwo, 1), T1(0)>>}

OpsUnsolvedSides ==
    {<<Term(k, 3)>> : k \in OpsCoeffIds}
        \cup {<<T1(1), Term(k, 3)>> : k \in OpsCoeffIds}
        \cup {<<T1(4)>>}

OpsR1Cs ==
    {R1C(LE(l), LE(r), LE(o)) :
        l \in OpsSolvedSides \cup OpsUnsolvedSides,
        r \in OpsSolvedSides \cup OpsUnsolvedSides,
        o \in OpsSolvedSides \cup OpsUnsolvedSides}

\* hints on X whose outputs are unsolved wires or reach a solved one
OpsHints ==
    {Hint(InvZeroID, <<LE(<<T1(1)>>)>>, o, o + 1) : o \in {2, 3}}
        \cup {Hint(DecomposeID,
                   <<LE(<<Term(CoeffIdTwo, MaxUint32)>>), LE(<<Term(CoeffIdOne, MaxUint32)>>),
                     LE(<<T1(1)>>)>>, o, o + 2) : o \in {1, 2, 3}}
        \cup {Hint(DecomposeID,
                   <<LE(<<Term(CoeffIdTwo, MaxUint32)>>), LE(<<Term(CoeffIdOne, MaxUint32)>>),
                     LE(<<T1(2)>>)>>, 3, 3),
              Hint(InvZeroID,
                   <<LE(<<Term(CoeffIdTwo, 1), Term(5, MaxUint32),
                          Term(CoeffIdMinusOne, 2)>>)>>, 3, 4)}

\* SetValue of constraint.Solver, which blueprints call
SetValue(s, vID, f) == set(s, vID, f)

\* the solver the operation is called on: as newSolver left it, or later in
\* the solve, wire 3 being solved
OpsSolver(wv, midSolve) ==
    IF midSolve
    THEN set(newSolver(OpsSystem, wv, registry).s, 3, 3).s
    ELSE newSolver(OpsSystem, wv, registry).s

NoOps ==
    [before |-> Embed(NewR1CS, NoSolver), op |-> "none",
     r1c |-> R1C(NilSlice, NilSlice, NilSlice), hint |-> HintMapping(0, NilSlice, 0, 0),
     wire |-> 0, value |-> 0,
     after |-> Embed(NewR1CS, NoSolver), err |-> ErrNil, panic |-> ""]

OpsAtRest == ops = NoOps

\* the call left the outcome r
OpsLeft(r) == [ops EXCEPT !.after = r.s, !.err = r.err, !.panic = r.panic]

\* solver.solveR1C(0, &r)
OpSolveR1C ==
    /\ ops.op = "none"
    /\ \E r \in OpsR1Cs :
           ops' = [OpsLeft(solveR1C(ops.before, 0, r)) EXCEPT !.op = "solveR1C", !.r1c = r]
    /\ UNCHANGED <<solverVars, coeffVars, blueprintVars, witnessVars, registryVars,
                   serialVars, levelVars, dispatchVars,
                   buildVars>>

\* solver.solveWithHint(&h)
OpSolveWithHint ==
    /\ ops.op = "none"
    /\ \E h \in OpsHints :
           ops' = [OpsLeft(solveWithHint(ops.before, h)) EXCEPT
                       !.op = "solveWithHint", !.hint = h]
    /\ UNCHANGED <<solverVars, coeffVars, blueprintVars, witnessVars, registryVars,
                   serialVars, levelVars, dispatchVars,
                   buildVars>>

\* solver.SetValue(vID, f)
OpSetValue ==
    /\ ops.op = "none"
    /\ \E vID \in 0 .. Len(ops.before.values), f \in {0, 3} :
           ops' = [OpsLeft(SetValue(ops.before, vID, f)) EXCEPT
                       !.op = "SetValue", !.wire = vID, !.value = f]
    /\ UNCHANGED <<solverVars, coeffVars, blueprintVars, witnessVars, registryVars,
                   serialVars, levelVars, dispatchVars,
                   buildVars>>

\* a blueprint of the caller that implements BlueprintSolvable only: its
\* call-data is <<3, vID, f>> and its Solve is s.SetValue(vID, f)
BlueprintSolve(s, calldata) == SetValue(s, calldata[2], calldata[3])

\* the solver s, its system holding one instruction of that blueprint
WithSelfSolve(s, vID, f) ==
    [s EXCEPT !.system =
        [@ EXCEPT !.Blueprints = Append(@, "BlueprintSelfSolve"),
                  !.CallData = @ \o <<3, vID, f>>,
                  !.Instructions =
                      Append(@, [StartCallData |-> Len(s.system.CallData),
                                 ConstraintOffset |-> U32(s.system.NbConstraints),
                                 BlueprintID |-> Len(s.system.Blueprints)])]]

LastInstruction(s) == s.system.Instructions[Len(s.system.Instructions)]

\* solver.processInstruction(inst, &scratch) on an instruction of that blueprint
OpProcessInstruction ==
    /\ ops.op = "none"
    /\ \E vID \in {3, 4}, f \in {0, 3} :
           LET s0 == WithSelfSolve(ops.before, vID, f)
               r == processInstruction(s0, LastInstruction(s0), NewScratch)
           IN  ops' = [ops EXCEPT !.before = s0, !.after = r.s, !.err = r.err,
                                  !.panic = r.panic, !.op = "processInstruction",
                                  !.wire = vID, !.value = f]
    /\ UNCHANGED <<solverVars, coeffVars, blueprintVars, witnessVars, registryVars,
                   serialVars, levelVars, dispatchVars,
                   buildVars>>

(***************************************************************************)
(* The level builder: instructions appended in order to a system whose     *)
(* wires 0, 1 and 2 are ONE, a public and a secret wire                    *)
(***************************************************************************)
\* number of instructions appended
MaxInstructions == 3

\* the wires an instruction mentions: those of its terms, and for a hint
\* those of its output range
TermWires(terms) == {terms[k].VID : k \in {j \in DOMAIN terms : ~IsConstant(terms[j])}}

LevelWires(d) ==
    IF IsHintDesc(d)
    THEN UNION {TermWires(Elems(d.Inputs.arr[k])) : k \in 1 .. d.Inputs.len}
             \cup (d.OutputRange.Start .. d.OutputRange.End - 1)
    ELSE TermWires(Elems(d.L)) \cup TermWires(Elems(d.R)) \cup TermWires(Elems(d.O))

MaxOf(S) == CHOOSE x \in S : \A y \in S : y <= x

\* variant: the instruction is placed at the highest level of its input wires
instructionLevel_NoIncrement(wireLevel, d) ==
    MaxOf({wireLevel[w] : w \in LevelWires(d) \cap DOMAIN wireLevel} \cup {0})

\* the level of an instruction: 1 + the maximum solved-level of its input
\* wires, the level of the wires that exist before any instruction being -1
instructionLevel(wireLevel, d) ==
    1 + MaxOf({wireLevel[w] : w \in LevelWires(d) \cap DOMAIN wireLevel} \cup {-1})

\* the builder after the instruction d is appended: the instruction joins its
\* level and each of its output wires gets that level
updateLevel(b, d, level) ==
    [descs |-> Append(b.descs, d),
     wireLevel |-> [w \in DOMAIN b.wireLevel \cup LevelWires(d) |->
                       IF w \in DOMAIN b.wireLevel THEN b.wireLevel[w] ELSE level],
     Levels |-> IF level + 1 > Len(b.Levels)
                THEN Append(b.Levels, <<Len(b.descs)>>)
                ELSE [b.Levels EXCEPT ![level + 1] = Append(@, Len(b.descs))]]

NewBuilder == [descs |-> <<>>, wireLevel |-> [w \in 0 .. 2 |-> -1], Levels |-> <<>>]

LevelsAtRest == lb = NewBuilder

LevelR1Cs ==
    {R1C(LE(<<T1(l)>>), LE(<<T1(r)>>), LE(<<T1(o)>>)) :
        l \in {1, 3}, r \in {0, 4}, o \in {2, 3, 4}}

LevelHints == {Hint(InvZeroID, <<LE(<<T1(w)>>)>>, o, o + 1) : w \in {1, 3}, o \in {3, 4}}

\* the frontend appends an R1C, then a hint
AppendR1C ==
    /\ Len(lb.descs) < MaxInstructions
    /\ \E d \in LevelR1Cs : lb' = updateLevel(lb, d, instructionLevel(lb.wireLevel, d))
    /\ UNCHANGED <<solverVars, coeffVars, blueprintVars, witnessVars, registryVars,
                   serialVars, opsVars, dispatchVars,
                   buildVars>>

AppendHint ==
    /\ Len(lb.descs) < MaxInstructions
    /\ \E d \in LevelHints : lb' = updateLevel(lb, d, instructionLevel(lb.wireLevel, d))
    /\ UNCHANGED <<solverVars, coeffVars, blueprintVars, witnessVars, registryVars,
                   serialVars, opsVars, dispatchVars,
                   buildVars>>

(***************************************************************************)
(* One level in the loop of run: the choice between the calling thread and *)
(* the workers, and the tasks sent                                         *)
(***************************************************************************)
\* the values of runtime.NumCPU() and the lengths of a level
MaxCPUs == 4

MaxLevelLen == 205

\* a level of n instructions
LevelOfLen(n) == [k \in 1 .. n |-> n - k]

NoDispatch ==
    [numCPU |-> 0, level |-> <<>>, mode |-> "none",
     d |-> [nbTasks |-> 0, nbIterationsPerCpus |-> 0, extraTasks |-> 0,
            extraTasksOffset |-> 0, i |-> 0],
     tasks |-> <<>>]

DispatchAtRest == dp = NoDispatch

(***************************************************************************)
(* The frontend building a system: variables and instructions are added    *)
(* in any order                                                            *)
(***************************************************************************)
\* number of calls on the system
MaxBuildCalls == 4

BuildR1Cs ==
    {R1C(LE(<<>>), LE(<<>>), LE(<<>>)),
     R1C(LE(<<T1(1)>>), LE(<<T1(2)>>), LE(<<T1(3)>>)),
     R1C(LE(<<Term(CoeffIdTwo, 1), T1(0)>>), LE(<<T1(0)>>), LE(<<Term(CoeffIdMinusOne, 2)>>))}

BuildHints ==
    {Hint(InvZeroID, <<LE(<<T1(1)>>)>>, 2, 3),
     Hint(DecomposeID, <<LE(<<Term(CoeffIdTwo, MaxUint32)>>), LE(<<>>)>>, 2, 2)}

\* the system of a builder: the generic blueprints, no variable yet
NewBuild == [sys |-> AddBlueprint(NewR1CS, "BlueprintGenericR1C"), log |-> <<>>]

BuildAtRest == sb = NewBuild

\* what a call was given and returned: the words of call-data compressed, the
\* instruction or the wire id returned
Built(sys, kind, words, ret) ==
    [sys |-> sys, log |-> Append(sb.log, [kind |-> kind, words |-> words, ret |-> ret])]

\* an R1C is added: compressR1C and the append of the instruction
BuildAddR1C ==
    /\ Len(sb.log) < MaxBuildCalls
    /\ \E c \in BuildR1Cs :
           sb' = Built(AddR1C(sb.sys, c, 1), "r1c", CompressR1C(c), Len(sb.sys.Instructions))
    /\ UNCHANGED <<solverVars, coeffVars, blueprintVars, witnessVars, registryVars,
                   serialVars, opsVars, levelVars, dispatchVars>>

\* a hint is added: compressHint and the append of the instruction
BuildAddHint ==
    /\ Len(sb.log) < MaxBuildCalls
    /\ \E h \in BuildHints :
           sb' = Built(AddHint(sb.sys, h), "hint", CompressHint(h), Len(sb.sys.Instructions))
    /\ UNCHANGED <<solverVars, coeffVars, blueprintVars, witnessVars, registryVars,
                   serialVars, opsVars, levelVars, dispatchVars>>

BuildAddPublic ==
    /\ Len(sb.log) < MaxBuildCalls
    /\ sb' = Built(AddPublicVariable(sb.sys, "p"), "public", <<>>, PublicVariableIdx(sb.sys))
    /\ UNCHANGED <<solverVars, coeffVars, blueprintVars, witnessVars, registryVars,
                   serialVars, opsVars, levelVars, dispatchVars>>

BuildAddSecret ==
    /\ Len(sb.log) < MaxBuildCalls
    /\ sb' = Built(AddSecretVariable(sb.sys, "s"), "secret", <<>>, SecretVariableIdx(sb.sys))
    /\ UNCHANGED <<solverVars, coeffVars, blueprintVars, witnessVars, registryVars,
                   serialVars, opsVars, levelVars, dispatchVars>>

BuildAddInternal ==
    /\ Len(sb.log) < MaxBuildCalls
    /\ sb' = Built(AddInternalVariable(sb.sys), "internal", <<>>, InternalVariableIdx(sb.sys))
    /\ UNCHANGED <<solverVars, coeffVars, blueprintVars, witnessVars, registryVars,
                   serialVars, opsVars, levelVars, dispatchVars>>

LibAtRest ==
    /\ CoeffAtRest
    /\ BlueprintAtRest
    /\ WitnessAtRest
    /\ RegistryAtRest
    /\ SerialAtRest
    /\ OpsAtRest
    /\ LevelsAtRest
    /\ DispatchAtRest
    /\ BuildAtRest

Init ==
    /\ cs \in Systems
    /\ witness \in Witnesses(cs)
    /\ hintFunctions \in HintFunctionMaps(cs)
    /\ solver = NoSolver
    /\ pc = "Solve"
    /\ lvl = 0
    /\ idx = 0
    /\ disp = NoDisp
    /\ chTasks = <<>>
    /\ chError = <<>>
    /\ closed = FALSE
    /\ wg = 0
    /\ workers = [w \in Workers |-> IdleWorker]
    /\ scratch = NewScratch
    /\ result = NoResult
    /\ results = <<>>
    /\ processed = {}
    /\ failed = {}
    /\ LibAtRest

(***************************************************************************)
(* run: how a level is executed                                            *)
(***************************************************************************)
\* variant: maxCPU is rounded down before the comparison
runsSequentially_Floor(level) == Len(level) \div minWorkPerCPU <= 1

\* maxCPU := float64(len(level)) / minWorkPerCPU; maxCPU <= 1.0
runsSequentially(level) == Len(level) <= minWorkPerCPU

\* nbTasks, nbIterationsPerCpus and extraTasks of a parallel level;
\* int(math.Ceil(maxCPU)) is the length divided by minWorkPerCPU, rounded up
planTasks(numCPU, level) ==
    LET maxTasks == (Len(level) + minWorkPerCPU - 1) \div minWorkPerCPU
        nbTasks0 == Min(numCPU, maxTasks)
        perCpu0 == Len(level) \div nbTasks0
        nbTasks == IF perCpu0 < 1 THEN Len(level) ELSE nbTasks0
        perCpu == IF perCpu0 < 1 THEN 1 ELSE perCpu0
    IN  [nbTasks |-> nbTasks,
         nbIterationsPerCpus |-> perCpu,
         extraTasks |-> Len(level) - nbTasks * perCpu,
         extraTasksOffset |-> 0,
         i |-> 0]

\* with nbTasks := runtime.NumCPU()
dispatchPlan(level) == planTasks(NumCPU, level)

\* variant: the slices do not shift by the extra tasks already handed out
taskSlice_NoOffset(level, d) ==
    LET start == d.i * d.nbIterationsPerCpus
        end == start + d.nbIterationsPerCpus + (IF d.extraTasks > 0 THEN 1 ELSE 0)
    IN  SubSeq(level, start + 1, end)

\* one iteration of the dispatch loop: the slice level[_start:_end] it sends
taskSlice(level, d) ==
    LET start == d.i * d.nbIterationsPerCpus + d.extraTasksOffset
        end == start + d.nbIterationsPerCpus + (IF d.extraTasks > 0 THEN 1 ELSE 0)
    IN  SubSeq(level, start + 1, end)

\* and the locals of the loop after it
nextDisp(d) ==
    IF d.extraTasks > 0
    THEN [d EXCEPT !.i = @ + 1, !.extraTasks = @ - 1, !.extraTasksOffset = @ + 1]
    ELSE [d EXCEPT !.i = @ + 1]

\* variant: run returns the solution without counting the solved wires
postSolve_NoCheck(sv) == R1CSSolution(sv)

\* the check of run after the last level
postSolve(sv) ==
    IF sv.nbSolved # Len(sv.values)
    THEN ErrResult(Error("solver didn't assign a value to all wires", <<>>))
    ELSE R1CSSolution(sv)

(***************************************************************************)
(* Actions                                                                 *)
(***************************************************************************)
\* Solve or run returns res: the deferred close of the channels runs
Return(res) ==
    /\ pc' = "done"
    /\ closed' = TRUE
    /\ result' = res
    /\ results' = Append(results, res)

\* a panic ends the process
Crash(msg) ==
    /\ pc' = "panicked"
    /\ result' = PanicResult(msg)
    /\ UNCHANGED <<closed, results>>

\* Solve up to the return of newSolver
SolveCall ==
    /\ pc = "Solve"
    /\ LET r == newSolver(cs, witness, hintFunctions)
       IN  IF r.panic # ""
           THEN /\ Crash(r.panic)
                /\ UNCHANGED <<cs, solver>>
           ELSE IF r.err # ErrNil
           THEN /\ pc' = "done"
                /\ result' = ErrResult(r.err)
                /\ results' = Append(results, ErrResult(r.err))
                /\ UNCHANGED <<cs, solver, closed>>
           ELSE /\ pc' = "run"
                /\ cs' = r.s.system
                /\ solver' = Fields(r.s)
                /\ UNCHANGED <<closed, result, results>>
    /\ UNCHANGED <<witness, hintFunctions, lvl, idx, disp, chTasks, chError, wg, workers,
                   scratch, processed, failed>>
    /\ UNCHANGED libVars

\* run creates the channels and starts the worker pool
StartPool ==
    /\ pc = "run"
    /\ pc' = "level"
    /\ chTasks' = <<>>
    /\ chError' = <<>>
    /\ wg' = 0
    /\ workers' = [w \in Workers |-> [IdleWorker EXCEPT !.state = "recv"]]
    /\ scratch' = NewScratch
    /\ lvl' = 0
    /\ UNCHANGED <<cs, witness, hintFunctions, solver, idx, disp, closed, result, results,
                   processed, failed>>
    /\ UNCHANGED libVars

\* run after the last level
Finish ==
    /\ pc = "level"
    /\ lvl >= Len(cs.Levels)
    /\ Return(postSolve(solver))
    /\ UNCHANGED <<cs, witness, hintFunctions, solver, lvl, idx, disp, chTasks, chError,
                   wg, workers, scratch, processed, failed>>
    /\ UNCHANGED libVars

\* run enters a level it executes on the calling thread
BeginSequential ==
    /\ pc = "level"
    /\ lvl < Len(cs.Levels)
    /\ runsSequentially(At(cs.Levels, lvl))
    /\ IF Len(At(cs.Levels, lvl)) = 0
       THEN lvl' = lvl + 1 /\ UNCHANGED pc
       ELSE pc' = "seq" /\ UNCHANGED lvl
    /\ idx' = 0
    /\ UNCHANGED <<cs, witness, hintFunctions, solver, disp, chTasks, chError, closed, wg,
                   workers, scratch, result, results, processed, failed>>
    /\ UNCHANGED libVars

\* the effect on the calling thread of processing instruction i, which left r
SeqProcessed(i, r) ==
    /\ processed' = processed \cup {i}
    /\ IF r.panic # ""
       THEN /\ Crash(r.panic)
            /\ UNCHANGED <<cs, solver, scratch, lvl, idx, failed>>
       ELSE /\ cs' = r.s.system
            /\ solver' = Fields(r.s)
            /\ scratch' = r.scratch
            /\ IF r.err # ErrNil
               THEN /\ failed' = failed \cup {i}
                    /\ Return(ErrResult(r.err))
                    /\ UNCHANGED <<lvl, idx>>
               ELSE /\ IF idx + 1 = Len(At(cs.Levels, lvl))
                       THEN lvl' = lvl + 1 /\ idx' = 0 /\ pc' = "level"
                       ELSE idx' = idx + 1 /\ UNCHANGED <<lvl, pc>>
                    /\ UNCHANGED <<failed, closed, result, results>>

\* one instruction of a sequential level
SeqStep ==
    /\ pc = "seq"
    /\ SeqProcessed(At(At(cs.Levels, lvl), idx),
                    processInstruction(Embed(cs, solver),
                                       At(cs.Instructions, At(At(cs.Levels, lvl), idx)),
                                       scratch))
    /\ UNCHANGED <<witness, hintFunctions, disp, chTasks, chError, wg, workers>>
    /\ UNCHANGED libVars

\* run enters a level it dispatches to the pool
BeginParallel ==
    /\ pc = "level"
    /\ lvl < Len(cs.Levels)
    /\ ~runsSequentially(At(cs.Levels, lvl))
    /\ disp' = dispatchPlan(At(cs.Levels, lvl))
    /\ pc' = "dispatch"
    /\ UNCHANGED <<cs, witness, hintFunctions, solver, lvl, idx, chTasks, chError, closed,
                   wg, workers, scratch, result, results, processed, failed>>
    /\ UNCHANGED libVars

\* one iteration of the dispatch loop: wg.Add(1) and the send of a task,
\* which blocks while the channel is full
Dispatch ==
    /\ pc = "dispatch"
    /\ disp.i < disp.nbTasks
    /\ Len(chTasks) < NumCPU
    /\ wg' = wg + 1
    /\ chTasks' = Append(chTasks, taskSlice(At(cs.Levels, lvl), disp))
    /\ disp' = nextDisp(disp)
    /\ pc' = IF disp.i + 1 < disp.nbTasks THEN "dispatch" ELSE "wait"
    /\ UNCHANGED <<cs, witness, hintFunctions, solver, lvl, idx, chError, closed, workers,
                   scratch, result, results, processed, failed>>
    /\ UNCHANGED libVars

\* variant: run does not wait for the tasks of the level
Wait_NoBarrier ==
    /\ pc = "wait"
    /\ IF Len(chError) > 0
       THEN /\ Return(ErrResult(Head(chError)))
            /\ chError' = Tail(chError)
            /\ UNCHANGED lvl
       ELSE /\ lvl' = lvl + 1
            /\ pc' = "level"
            /\ UNCHANGED <<chError, closed, result, results>>
    /\ UNCHANGED <<cs, witness, hintFunctions, solver, idx, disp, chTasks, wg, workers,
                   scratch, processed, failed>>
    /\ UNCHANGED libVars

\* variant: run does not look at the error channel after a level
Wait_IgnoreError ==
    /\ pc = "wait"
    /\ wg = 0
    /\ lvl' = lvl + 1
    /\ pc' = "level"
    /\ UNCHANGED <<chError, closed, result, results>>
    /\ UNCHANGED <<cs, witness, hintFunctions, solver, idx, disp, chTasks, wg, workers,
                   scratch, processed, failed>>
    /\ UNCHANGED libVars

\* wg.Wait() returns, then the check of the error channel
Wait ==
    /\ pc = "wait"
    /\ wg = 0
    /\ IF Len(chError) > 0
       THEN /\ Return(ErrResult(Head(chError)))
            /\ chError' = Tail(chError)
            /\ UNCHANGED lvl
       ELSE /\ lvl' = lvl + 1
            /\ pc' = "level"
            /\ UNCHANGED <<chError, closed, result, results>>
    /\ UNCHANGED <<cs, witness, hintFunctions, solver, idx, disp, chTasks, wg, workers,
                   scratch, processed, failed>>
    /\ UNCHANGED libVars

\* a worker receives a task
WorkerRecv(w) ==
    /\ pc \notin {"panicked"}
    /\ workers[w].state = "recv"
    /\ chTasks # <<>>
    /\ workers' = [workers EXCEPT ![w].state = "work", ![w].task = Head(chTasks),
                                  ![w].pos = 0]
    /\ chTasks' = Tail(chTasks)
    /\ UNCHANGED <<cs, witness, hintFunctions, solver, pc, lvl, idx, disp, chError, closed,
                   wg, scratch, result, results, processed, failed>>
    /\ UNCHANGED libVars

\* variant: nbSolved is read and written back in two steps, and the increment
\* is lost when another worker is in its loop
WorkerProcessed_PlainAdd(w, i, r) ==
    /\ processed' = processed \cup {i}
    /\ IF r.panic # ""
       THEN /\ Crash(r.panic)
            /\ UNCHANGED <<cs, solver, workers, failed>>
       ELSE /\ cs' = r.s.system
            /\ solver' = [Fields(r.s) EXCEPT !.nbSolved =
                              IF \E o \in Workers \ {w} : workers[o].state = "work"
                              THEN solver.nbSolved ELSE @]
            /\ IF r.err # ErrNil
               THEN /\ failed' = failed \cup {i}
                    /\ workers' = [workers EXCEPT ![w].state = "send",
                                                  ![w].err = r.err,
                                                  ![w].scratch = r.scratch]
               ELSE /\ workers' = [workers EXCEPT ![w].pos = @ + 1,
                                                  ![w].scratch = r.scratch]
                    /\ UNCHANGED failed
            /\ UNCHANGED <<pc, closed, result, results>>

\* the effect on worker w of processing instruction i, which left r
WorkerProcessed(w, i, r) ==
    /\ processed' = processed \cup {i}
    /\ IF r.panic # ""
       THEN /\ Crash(r.panic)
            /\ UNCHANGED <<cs, solver, workers, failed>>
       ELSE /\ cs' = r.s.system
            /\ solver' = Fields(r.s)
            /\ IF r.err # ErrNil
               THEN /\ failed' = failed \cup {i}
                    /\ workers' = [workers EXCEPT ![w].state = "send",
                                                  ![w].err = r.err,
                                                  ![w].scratch = r.scratch]
               ELSE /\ workers' = [workers EXCEPT ![w].pos = @ + 1,
                                                  ![w].scratch = r.scratch]
                    /\ UNCHANGED failed
            /\ UNCHANGED <<pc, closed, result, results>>

\* a worker processes the next instruction of its task; on an error it goes
\* on to send the error
WorkerStep(w) ==
    /\ pc \notin {"panicked"}
    /\ workers[w].state = "work"
    /\ workers[w].pos < Len(workers[w].task)
    /\ WorkerProcessed(w, At(workers[w].task, workers[w].pos),
                       processInstruction(Embed(cs, solver),
                                          At(cs.Instructions,
                                             At(workers[w].task, workers[w].pos)),
                                          workers[w].scratch))
    /\ UNCHANGED <<witness, hintFunctions, lvl, idx, disp, chTasks, chError, wg, scratch>>
    /\ UNCHANGED libVars

\* variant: the worker returns after the send without wg.Done()
WorkerSendError_NoDone(w) ==
    /\ pc \notin {"panicked"}
    /\ workers[w].state = "send"
    /\ Len(chError) < NumCPU
    /\ ~closed
    /\ chError' = Append(chError, workers[w].err)
    /\ workers' = [workers EXCEPT ![w].state = "exit"]
    /\ UNCHANGED <<cs, witness, hintFunctions, solver, pc, lvl, idx, disp, chTasks, closed,
                   wg, scratch, result, results, processed, failed>>
    /\ UNCHANGED libVars

\* chError <- err, which blocks while the channel is full; wg.Done(); return
WorkerSendError(w) ==
    /\ pc \notin {"panicked"}
    /\ workers[w].state = "send"
    /\ Len(chError) < NumCPU
    /\ ~closed
    /\ chError' = Append(chError, workers[w].err)
    /\ wg' = wg - 1
    /\ workers' = [workers EXCEPT ![w].state = "exit"]
    /\ UNCHANGED <<cs, witness, hintFunctions, solver, pc, lvl, idx, disp, chTasks, closed,
                   scratch, result, results, processed, failed>>
    /\ UNCHANGED libVars

\* a worker reaches the end of its task: wg.Done()
WorkerTaskDone(w) ==
    /\ pc \notin {"panicked"}
    /\ workers[w].state = "work"
    /\ workers[w].pos >= Len(workers[w].task)
    /\ wg' = wg - 1
    /\ workers' = [workers EXCEPT ![w].state = "recv", ![w].task = <<>>, ![w].pos = 0]
    /\ UNCHANGED <<cs, witness, hintFunctions, solver, pc, lvl, idx, disp, chTasks, chError,
                   closed, scratch, result, results, processed, failed>>
    /\ UNCHANGED libVars

\* the range over the closed, drained task channel ends
WorkerExit(w) ==
    /\ pc \notin {"panicked"}
    /\ workers[w].state = "recv"
    /\ chTasks = <<>>
    /\ closed
    /\ workers' = [workers EXCEPT ![w].state = "exit"]
    /\ UNCHANGED <<cs, witness, hintFunctions, solver, pc, lvl, idx, disp, chTasks, chError,
                   closed, wg, scratch, result, results, processed, failed>>
    /\ UNCHANGED libVars

\* the caller calls Solve again on the same system with the same witness and
\* options, once the goroutines of the previous call are gone
SolveAgain ==
    /\ pc = "done"
    /\ Len(results) < MaxSolves
    /\ \A w \in Workers : workers[w].state \in {"none", "exit"}
    /\ pc' = "Solve"
    /\ solver' = NoSolver
    /\ lvl' = 0
    /\ idx' = 0
    /\ disp' = NoDisp
    /\ chTasks' = <<>>
    /\ chError' = <<>>
    /\ closed' = FALSE
    /\ wg' = 0
    /\ workers' = [w \in Workers |-> IdleWorker]
    /\ scratch' = NewScratch
    /\ result' = NoResult
    /\ processed' = {}
    /\ failed' = {}
    /\ UNCHANGED <<cs, witness, hintFunctions, results>>
    /\ UNCHANGED libVars

Next ==
    \/ SolveCall
    \/ StartPool
    \/ Finish
    \/ BeginSequential
    \/ SeqStep
    \/ BeginParallel
    \/ Dispatch
    \/ Wait
    \/ \E w \in Workers : WorkerRecv(w)
    \/ \E w \in Workers : WorkerStep(w)
    \/ \E w \in Workers : WorkerSendError(w)
    \/ \E w \in Workers : WorkerTaskDone(w)
    \/ \E w \in Workers : WorkerExit(w)
    \/ SolveAgain

Spec == Init /\ [][Next]_vars

\* no Solve call is under way
SolverAtRest ==
    /\ cs = NewR1CS
    /\ witness = <<>>
    /\ hintFunctions = registry
    /\ solver = NoSolver
    /\ pc = "Solve"
    /\ lvl = 0
    /\ idx = 0
    /\ disp = NoDisp
    /\ chTasks = <<>>
    /\ chError = <<>>
    /\ closed = FALSE
    /\ wg = 0
    /\ workers = [k \in Workers |-> IdleWorker]
    /\ scratch = NewScratch
    /\ result = NoResult
    /\ results = <<>>
    /\ processed = {}
    /\ failed = {}

InitCoeff == SolverAtRest /\ LibAtRest

NextCoeff == CallAddCoeff \/ CallMakeTerm

SpecCoeff == InitCoeff /\ [][NextCoeff]_vars

\* the same table when its system is also serialized and read back
NextCoeffSerial == CallAddCoeff \/ CallMakeTerm \/ CallTableRoundTrip

SpecCoeffSerial == InitCoeff /\ [][NextCoeffSerial]_vars

InitBlueprint == SolverAtRest /\ LibAtRest

NextBlueprint == RoundTripR1C \/ RoundTripHint

SpecBlueprint == InitBlueprint /\ [][NextBlueprint]_vars

InitWitness == SolverAtRest /\ LibAtRest

NextWitness == CallFill \/ CallPublic \/ WriteVector \/ CallWriteTo \/ CallReadFrom

SpecWitness == InitWitness /\ [][NextWitness]_vars

\* the same witnesses when ReadFrom is also handed bytes WriteTo did not write
NextWitnessDecode ==
    CallFill \/ CallPublic \/ WriteVector \/ CallWriteTo \/ CallReadFrom \/ CallReadFromEncoding

SpecWitnessDecode == InitWitness /\ [][NextWitnessDecode]_vars

InitRegistry == SolverAtRest /\ LibAtRest

NextRegistry == CallRegisterHint \/ CallRegisterHints

SpecRegistry == InitRegistry /\ [][NextRegistry]_vars

InitSerial ==
    /\ SolverAtRest
    /\ BuildAtRest
    /\ CoeffAtRest
    /\ BlueprintAtRest
    /\ WitnessAtRest
    /\ RegistryAtRest
    /\ OpsAtRest
    /\ LevelsAtRest
    /\ DispatchAtRest
    /\ header \in [ScalarField : Headers, intact : BOOLEAN]
    /\ decoded = NotRead

NextSerial == CallSystemReadFrom

SpecSerial == InitSerial /\ [][NextSerial]_vars

InitOps ==
    /\ SolverAtRest
    /\ BuildAtRest
    /\ CoeffAtRest
    /\ BlueprintAtRest
    /\ WitnessAtRest
    /\ RegistryAtRest
    /\ SerialAtRest
    /\ LevelsAtRest
    /\ DispatchAtRest
    /\ \E wv \in [1 .. 2 -> 0 .. MaxWitnessValue], midSolve \in BOOLEAN :
           ops = [NoOps EXCEPT !.before = OpsSolver(wv, midSolve),
                               !.after = OpsSolver(wv, midSolve)]

NextOps == OpSolveR1C \/ OpSolveWithHint \/ OpSetValue \/ OpProcessInstruction

SpecOps == InitOps /\ [][NextOps]_vars

InitLevels == SolverAtRest /\ LibAtRest

NextLevels == AppendR1C \/ AppendHint

SpecLevels == InitLevels /\ [][NextLevels]_vars

\* maxCPU <= 1.0: the level is run by the loop of run itself
LevelSequential ==
    /\ dp.mode = "arrived"
    /\ runsSequentially(dp.level)
    /\ dp' = [dp EXCEPT !.mode = "sequential"]
    /\ UNCHANGED <<solverVars, coeffVars, blueprintVars, witnessVars, registryVars,
                   serialVars, opsVars, levelVars,
                   buildVars>>

\* otherwise nbTasks, nbIterationsPerCpus and extraTasks are computed
LevelParallel ==
    /\ dp.mode = "arrived"
    /\ ~runsSequentially(dp.level)
    /\ dp' = [dp EXCEPT !.mode = "parallel", !.d = planTasks(dp.numCPU, dp.level)]
    /\ UNCHANGED <<solverVars, coeffVars, blueprintVars, witnessVars, registryVars,
                   serialVars, opsVars, levelVars,
                   buildVars>>

\* one iteration of the loop that sends the tasks: chTasks <- level[_start:_end]
LevelDispatch ==
    /\ dp.mode = "parallel"
    /\ dp.d.i < dp.d.nbTasks
    /\ dp' = [dp EXCEPT !.tasks = Append(@, taskSlice(dp.level, dp.d)), !.d = nextDisp(@)]
    /\ UNCHANGED <<solverVars, coeffVars, blueprintVars, witnessVars, registryVars,
                   serialVars, opsVars, levelVars,
                   buildVars>>

\* a level of every length arrives in the loop of run, on every number of CPUs
InitDispatch ==
    /\ SolverAtRest
    /\ BuildAtRest
    /\ CoeffAtRest
    /\ BlueprintAtRest
    /\ WitnessAtRest
    /\ RegistryAtRest
    /\ SerialAtRest
    /\ OpsAtRest
    /\ LevelsAtRest
    /\ \E n \in 1 .. MaxCPUs, len \in 0 .. MaxLevelLen :
           dp = [NoDispatch EXCEPT !.numCPU = n, !.level = LevelOfLen(len), !.mode = "arrived"]

InitBuild == SolverAtRest /\ LibAtRest

NextBuild ==
    \/ BuildAddR1C
    \/ BuildAddHint
    \/ BuildAddPublic
    \/ BuildAddSecret
    \/ BuildAddInternal

SpecBuild == InitBuild /\ [][NextBuild]_vars

NextDispatch == LevelSequential \/ LevelParallel \/ LevelDispatch

SpecDispatch == InitDispatch /\ [][NextDispatch]_vars

(***************************************************************************)
(* Properties                                                              *)
(***************************************************************************)
InstructionIds == 0 .. Len(cs.Instructions) - 1

NbWires == Len(cs.Public) + Len(cs.Secret) + cs.NbInternalVariables

\* the wires the witness assigns, the constant wire included
WitnessWires == 0 .. Len(cs.Public) + Len(cs.Secret) - 1

ExpectedWitnessSize == Len(cs.Public) - 1 + Len(cs.Secret)

\* the level an instruction belongs to
LevelOf(i) == CHOOSE k \in 0 .. Len(cs.Levels) - 1 : i \in Range(At(cs.Levels, k))

IsR1C(i) == IsBlueprintR1C(At(cs.Blueprints, At(cs.Instructions, i).BlueprintID))

\* the R1C and the hint mapping an instruction encodes
R1COf(i) == DecompressR1C(NewScratch.tR1C, GetCallData(cs, At(cs.Instructions, i)))

HintOf(i) == DecompressHint(NewScratch.tHint, GetCallData(cs, At(cs.Instructions, i)))

\* the sum of coeff * W[wire] over the terms of a linear expression
RECURSIVE EvalTerms(_, _)
EvalTerms(terms, W) ==
    IF terms = <<>> THEN 0
    ELSE Add(Mul(At(cs.Coefficients, Head(terms).CID), At(W, Head(terms).VID)),
             EvalTerms(Tail(terms), W))

\* sol satisfies the R1C r, whose constraint id is cid
Satisfies(sol, cid, r) ==
    /\ Mul(At(sol.A, cid), At(sol.B, cid)) = At(sol.C, cid)
    /\ At(sol.A, cid) = EvalTerms(Elems(r.L), sol.W)
    /\ At(sol.B, cid) = EvalTerms(Elems(r.R), sol.W)
    /\ At(sol.C, cid) = EvalTerms(Elems(r.O), sol.W)

\* C1: after a Solve call that succeeded, every R1C instruction with
\* constraint id cid has A[cid] * B[cid] = C[cid], where A[cid], B[cid] and
\* C[cid] are the sums of coeff * W[wire] over the terms of L, R and O
C1_SolutionSatisfiesConstraints ==
    result.kind = "solution" =>
        \A i \in InstructionIds :
            IsR1C(i) => Satisfies(result, At(cs.Instructions, i).ConstraintOffset, R1COf(i))

\* a Solve call succeeded on the system with an unsolved wire on each side,
\* under the coefficients -1, 2 and an interned one
C1_Witness ==
    /\ cs = CircuitSides
    /\ result.kind = "solution"
    /\ processed = InstructionIds

\* C2: after a Solve call that succeeded every wire is solved; when the
\* levels are through and some wire is not solved, Solve fails with
\* "solver didn't assign a value to all wires"
C2_AllWiresSolved ==
    /\ result.kind = "solution" =>
           /\ Len(solver.solved) = NbWires
           /\ \A i \in 1 .. NbWires : solver.solved[i]
    /\ (/\ pc = "done"
        /\ Len(solver.solved) = NbWires
        /\ lvl = Len(cs.Levels)
        /\ \E i \in 1 .. NbWires : ~solver.solved[i])
           => result = ErrResult(Error("solver didn't assign a value to all wires", <<>>))

\* every instruction was processed without error and a wire is left unsolved
C2_Witness ==
    /\ pc = "done"
    /\ processed = InstructionIds
    /\ processed # {}
    /\ failed = {}
    /\ \E i \in 1 .. NbWires : ~solver.solved[i]
    /\ result.kind = "error"

\* C3: from the construction of the solver to the end of the call, wire 0
\* holds 1 and wire 1 + i holds witness[i]: no instruction changes a wire
\* that was solved before the first level
C3_WitnessWiresKept ==
    /\ Len(solver.values) > 0 =>
           /\ solver.values[1] = 1
           /\ \A i \in 1 .. Len(witness) : solver.values[1 + i] = witness[i]
    /\ result.kind = "solution" =>
           /\ result.W[1] = 1
           /\ \A i \in 1 .. Len(witness) : result.W[1 + i] = witness[i]

\* an instruction tried to write a wire of the witness
C3_Witness ==
    /\ cs = CircuitHintOnWitness
    /\ processed # {}
    /\ pc = "panicked"
    /\ result = PanicResult("solving the same wire twice should never happen.")

\* the R1C instructions all of whose wires the witness assigns
OnlyWitnessWires(i) ==
    /\ IsR1C(i)
    /\ \A t \in Range(Elems(R1COf(i).L)) \cup Range(Elems(R1COf(i).R))
                    \cup Range(Elems(R1COf(i).O)) : t.VID \in WitnessWires

\* C4: when the only instruction that failed is an R1C without unsolved wire
\* whose a * b differs from c, Solve returns an unsatisfied-constraint error
\* that carries the constraint id of the instruction
C4_UnsatisfiedCarriesConstraintId ==
    \A i \in InstructionIds :
        (pc = "done" /\ failed = {i} /\ OnlyWitnessWires(i)) =>
            /\ result.kind = "error"
            /\ result.err.type = "UnsatisfiedConstraintError"
            /\ result.err.CID = At(cs.Instructions, i).ConstraintOffset

\* C5: with a witness whose length is not (nbPublic - 1) + nbSecret, Solve
\* fails with the invalid-witness-size error and no instruction is processed,
\* no worker started and no solver built
C5_WrongWitnessSizeFails ==
    Len(witness) # ExpectedWitnessSize =>
        /\ pc \in {"Solve", "done"}
        /\ processed = {}
        /\ solver = NoSolver
        /\ \A w \in Workers : workers[w].state = "none"
        /\ pc = "done" =>
               result = ErrResult(Error("invalid witness size, got %d, expected %d",
                                        <<Len(witness), ExpectedWitnessSize>>))

\* Solve returned on a witness one element longer than expected
C5_Witness ==
    /\ Len(witness) = ExpectedWitnessSize + 1
    /\ pc = "done"
    /\ result.kind = "error"

\* the names of the hints of MHintsDependencies the options give no function for
MissingHintNames ==
    {cs.MHintsDependencies[id] : id \in DOMAIN cs.MHintsDependencies \ DOMAIN hintFunctions}

\* Solve fails with the error that names every missing hint, before any
\* worker runs or instruction is processed
FailsOnMissingHints ==
    /\ pc \in {"Solve", "done"}
    /\ processed = {}
    /\ \A w \in Workers : workers[w].state = "none"
    /\ pc = "done" =>
           result = ErrResult(ErrorNames("solver missing hint(s): %v", MissingHintNames))

\* C6, as stated: if a hint of MHintsDependencies has no function in the
\* options, Solve fails with the missing-hint error naming every missing
\* hint, before any worker runs or instruction is processed
C6_MissingHintsAlwaysReported ==
    MissingHintNames # {} => FailsOnMissingHints

\* C6, amended: the same, for a witness of the expected length
C6_MissingHintsReported ==
    (Len(witness) = ExpectedWitnessSize /\ MissingHintNames # {}) => FailsOnMissingHints

\* Solve returned on a witness of the expected length with two hints missing
C6_Witness ==
    /\ Len(witness) = ExpectedWitnessSize
    /\ Cardinality(MissingHintNames) = 2
    /\ pc = "done"
    /\ result.kind = "error"

\* the instructions in the order of the levels
RECURSIVE levelOrder(_, _)
levelOrder(levels, k) ==
    IF k >= Len(levels) THEN <<>> ELSE At(levels, k) \o levelOrder(levels, k + 1)

\* the sequential path of run over order[lo .. hi], from what the
\* instructions before left in st; it ends at the first error or panic
RECURSIVE runSequential(_, _, _, _)
runSequential(st, order, lo, hi) ==
    IF lo > hi THEN st
    ELSE IF lo = hi
    THEN processInstruction(st.s, At(st.s.system.Instructions, order[lo]), st.scratch)
    ELSE LET left == runSequential(st, order, lo, (lo + hi) \div 2)
         IN  IF left.panic # "" \/ left.err # ErrNil
             THEN left
             ELSE runSequential(left, order, (lo + hi) \div 2 + 1, hi)

\* what Solve returns when run ended in st
solveResult(st) ==
    IF st.panic # "" THEN PanicResult(st.panic)
    ELSE IF st.err # ErrNil THEN ErrResult(st.err)
    ELSE postSolve(Fields(st.s))

\* Solve with every level executed on the calling thread
SequentialSolve(sys, w, hf) ==
    LET r == newSolver(sys, w, hf)
    IN  IF r.panic # "" THEN PanicResult(r.panic)
        ELSE IF r.err # ErrNil THEN ErrResult(r.err)
        ELSE solveResult(runSequential(processed1(r, NewScratch),
                                       levelOrder(sys.Levels, 0), 1,
                                       Len(levelOrder(sys.Levels, 0))))

\* the wires of the terms of an instruction, constants aside
WiresOf(i) ==
    IF IsR1C(i)
    THEN {t.VID : t \in Range(Elems(R1COf(i).L)) \cup Range(Elems(R1COf(i).R))
                            \cup Range(Elems(R1COf(i).O))}
    ELSE {t.VID : t \in {u \in UNION {Range(Elems(l)) : l \in Range(Elems(HintOf(i).Inputs))} :
                            ~IsConstant(u)}}

\* the wires solved before level k, and the wires instruction i of level k writes
RECURSIVE SolvedBefore(_)
WritesOf(i, k) ==
    IF IsR1C(i)
    THEN WiresOf(i) \ SolvedBefore(k)
    ELSE HintOf(i).OutputRange.Start .. HintOf(i).OutputRange.End - 1

SolvedBefore(k) ==
    IF k = 0 THEN WitnessWires
    ELSE SolvedBefore(k - 1)
             \cup UNION {WritesOf(i, k - 1) : i \in Range(At(cs.Levels, k - 1))}

\* the levels satisfy the dependency invariant: every instruction is in one
\* level, every wire an instruction reads without writing it is solved in an
\* earlier level, and every internal wire is written by exactly one instruction
DependencyInvariant ==
    /\ \A i \in InstructionIds :
           \E k \in 0 .. Len(cs.Levels) - 1 :
               /\ \E p \in DOMAIN At(cs.Levels, k) : At(cs.Levels, k)[p] = i
               /\ \A k2 \in 0 .. Len(cs.Levels) - 1 :
                      \A p1 \in DOMAIN At(cs.Levels, k), p2 \in DOMAIN At(cs.Levels, k2) :
                          (At(cs.Levels, k)[p1] = i /\ At(cs.Levels, k2)[p2] = i)
                              => (k = k2 /\ p1 = p2)
    /\ \A k \in 0 .. Len(cs.Levels) - 1 :
           /\ \A i \in Range(At(cs.Levels, k)) :
                  /\ i \in InstructionIds
                  /\ IF IsR1C(i)
                     THEN Cardinality(WritesOf(i, k)) <= 1
                     ELSE /\ WiresOf(i) \subseteq SolvedBefore(k)
                          /\ WritesOf(i, k) \cap SolvedBefore(k) = {}
           /\ \A i, j \in Range(At(cs.Levels, k)) :
                  i # j => WritesOf(i, k) \cap WritesOf(j, k) = {}
    /\ SolvedBefore(Len(cs.Levels)) = 0 .. NbWires - 1

\* two results agree on success or failure and on the solution
SameOutcome(r1, r2) ==
    /\ r1.kind = r2.kind
    /\ r1.W = r2.W
    /\ r1.A = r2.A
    /\ r1.B = r2.B
    /\ r1.C = r2.C

\* C7: when the levels satisfy the dependency invariant, whatever the
\* interleaving of the workers was, Solve ends as the sequential execution
\* does: both succeed or both fail, with the same W, A, B and C on success
C7_InterleavingsAgreeWithSequential ==
    pc \in {"done", "panicked"} =>
        \/ SameOutcome(result, SequentialSolve(cs, witness, hintFunctions))
        \/ ~DependencyInvariant

\* a Solve call succeeded on a system whose wide level went to the workers
C7_Witness ==
    /\ cs = CircuitParallel
    /\ result.kind = "solution"
    /\ \E w \in Workers : workers[w].state = "recv"
    /\ DependencyInvariant

\* C8: an instruction is processed only when every instruction of the
\* levels before its own has been processed
C8_LevelBarrier ==
    \A i \in processed :
        \A k \in 0 .. LevelOf(i) - 1 : Range(At(cs.Levels, k)) \subseteq processed

\* the instruction of the level after the wide level is processed
C8_Witness ==
    /\ cs = CircuitParallel
    /\ (ParallelWidth + 1) \in processed

\* C9: once an instruction of a level returned an error, no instruction of
\* a later level is processed, and Solve returns an error
C9_ErrorStopsLaterLevels ==
    /\ \A j \in failed : \A i \in processed : LevelOf(i) <= LevelOf(j)
    /\ (pc = "done" /\ failed # {}) => result.kind = "error"

\* Solve returned after both tasks of the wide level failed
C9_Witness ==
    /\ cs = CircuitParallel
    /\ pc = "done"
    /\ Cardinality(failed) = 2
    /\ LevelOf(CHOOSE j \in failed : TRUE) < Len(cs.Levels) - 1

\* C10, its second half as stated: the Solve calls made so far on the
\* system with the same witness returned the same result
C10_SameResult ==
    \A i, j \in DOMAIN results : results[i] = results[j]

\* C10, amended: no step of Solve modifies the constraint system (blueprints,
\* instructions, call data, coefficients, levels), and the Solve calls made
\* so far with the same witness all succeeded with the same W, A, B and C or
\* all failed
C10_SystemKept ==
    [][/\ cs' = cs
       /\ \A i, j \in DOMAIN results' : SameOutcome(results'[i], results'[j])]_vars

\* a second Solve call succeeded on the system that divides by its
\* coefficient table
C10_Witness ==
    /\ cs = CircuitSides
    /\ Len(results) = 2
    /\ result.kind = "solution"

(***************************************************************************)
(* Properties of the coefficient table                                     *)
(***************************************************************************)
ReservedValues == {0, 1, 2 % q, Neg(1), Neg(2)}

ReservedIds == {CoeffIdZero, CoeffIdOne, CoeffIdTwo, CoeffIdMinusOne, CoeffIdMinusTwo}

\* C11: AddCoeff returns a reserved id exactly for the reserved values 0, 1,
\* 2, -1 and -2, each with its own id; over all the calls made on a table,
\* equal values got the same id and different values different ids.
C11_IdsIdentifyValues ==
    /\ \A k \in DOMAIN coeffLog :
           /\ coeffLog[k][2] \in ReservedIds <=> coeffLog[k][1] \in ReservedValues
           /\ coeffLog[k][1] = 0 => coeffLog[k][2] = CoeffIdZero
           /\ coeffLog[k][1] = 1 => coeffLog[k][2] = CoeffIdOne
           /\ coeffLog[k][1] = 2 % q => coeffLog[k][2] = CoeffIdTwo
           /\ coeffLog[k][1] = Neg(1) => coeffLog[k][2] = CoeffIdMinusOne
           /\ coeffLog[k][1] = Neg(2) => coeffLog[k][2] = CoeffIdMinusTwo
    /\ \A k1, k2 \in DOMAIN coeffLog :
           coeffLog[k1][1] = coeffLog[k2][1] <=> coeffLog[k1][2] = coeffLog[k2][2]

\* a value outside the reserved ones was added, then another, then the first again
C11_Witness ==
    /\ Len(coeffLog) = 3
    /\ coeffLog[1][1] \notin ReservedValues
    /\ coeffLog[2][1] \notin ReservedValues
    /\ coeffLog[2][1] # coeffLog[1][1]
    /\ coeffLog[3][1] = coeffLog[1][1]
    /\ coeffLog[3][2] = coeffLog[1][2]

\* C12: the slot of an id never changes once the id was handed out (the
\* reserved slots hold 0, 1, 2, -1, -2), and Coefficients[AddCoeff(e)] is e
\* for every call made so far, later calls included.
C12_SlotsAreStable ==
    /\ Len(table.Coefficients) >= 5
    /\ At(table.Coefficients, CoeffIdZero) = 0
    /\ At(table.Coefficients, CoeffIdOne) = 1
    /\ At(table.Coefficients, CoeffIdTwo) = 2 % q
    /\ At(table.Coefficients, CoeffIdMinusOne) = Neg(1)
    /\ At(table.Coefficients, CoeffIdMinusTwo) = Neg(2)
    /\ \A k \in DOMAIN coeffLog :
           /\ coeffLog[k][2] < Len(table.Coefficients)
           /\ At(table.Coefficients, coeffLog[k][2]) = coeffLog[k][1]

\* two new coefficients were appended, and a later call was made on the table
C12_Witness ==
    /\ Len(table.Coefficients) = 7
    /\ Len(coeffLog) = 3
    /\ coeffLog[1][2] = 5
    /\ coeffLog[2][2] = 6

(***************************************************************************)
(* Properties of the blueprints' call-data encoding                        *)
(***************************************************************************)
\* the same terms in the same order, whatever lies beyond the lengths
SameExpression(a, b) == Elems(a) = Elems(b)

SameInputs(a, b) ==
    /\ a.len = b.len
    /\ \A k \in 1 .. a.len : SameExpression(a.arr[k], b.arr[k])

SameHint(a, b) ==
    /\ a.HintID = b.HintID
    /\ SameInputs(a.Inputs, b.Inputs)
    /\ a.OutputRange = b.OutputRange

\* C13: whatever the destination held before, DecompressR1C(dest,
\* CompressR1C(c)) leaves dest.L, dest.R and dest.O equal term by term to
\* c.L, c.R and c.O, with no term of the previous content left in them.
C13_R1CRoundTrip ==
    sent.kind = "r1c" =>
        /\ SameExpression(dest.tR1C.L, sent.r1c.L)
        /\ SameExpression(dest.tR1C.R, sent.r1c.R)
        /\ SameExpression(dest.tR1C.O, sent.r1c.O)

\* a shorter constraint was decompressed into a destination that held a longer one
C13_Witness ==
    /\ sent.kind = "r1c"
    /\ sent.n = 2
    /\ sent.r1c.O.len = 1
    /\ Len(dest.tR1C.O.arr) = 4
    /\ dest.tR1C.O.arr[2] # ZeroTerm
    /\ SameExpression(dest.tR1C.O, sent.r1c.O)

C15_WitnessRoundTrip ==
    readBack # NilWitness =>
        /\ wres.err = ErrNil
        /\ readBack.nbPublic = stream.nbPublic
        /\ readBack.nbSecret = stream.nbSecret
        /\ VectorOf(heap, readBack.vector) = stream.elements

\* a witness of two public values and one secret value was written and read back
C15_Witness ==
    /\ readBack # NilWitness
    /\ stream.nbPublic = 2
    /\ stream.nbSecret = 1
    /\ Len(stream.elements) = 3
    /\ stream.elements[1] # stream.elements[2]
    /\ readBack.vector.len = 3

\* the first n values of the source of the last Fill can all be converted
FirstConvertible(n) ==
    \A k \in 1 .. Min(n, Len(wres.source)) : wres.source[k].ok

\* the vector of the witness has n elements, and its counts are those passed to Fill
FilledShape(n) ==
    /\ wit.vector.len = n
    /\ Len(VectorOf(heap, wit.vector)) = n
    /\ wit.nbPublic = wres.nbPublic
    /\ wit.nbSecret = wres.nbSecret

\* the vector holds the values of the source, in order
FilledFromSource ==
    /\ Len(wres.source) = wit.vector.len
    /\ \A k \in 1 .. wit.vector.len : VectorOf(heap, wit.vector)[k] = wres.source[k].v

\* C16 as stated: Fill leaves a vector of exactly nbPublic + nbSecret
\* elements, holding the source's values in order when it succeeds, and it
\* returns an error whenever the source yields fewer or more values.
C16_FillErrorOnAnyOtherCount ==
    wres.op = "Fill" =>
        /\ FilledShape(wres.nbPublic + wres.nbSecret)
        /\ (wres.err = ErrNil /\ wres.panic = "") => FilledFromSource
        /\ Len(wres.source) # wres.nbPublic + wres.nbSecret => wres.err # ErrNil

\* C16: Fill leaves a vector of exactly nbPublic + nbSecret elements; when
\* it returns without error the source yielded exactly that many values and
\* the vector holds them in order; it returns an error when the source
\* yields fewer values; when the source yields more, it panics, unless one
\* of the first nbPublic + nbSecret values cannot be converted, which is
\* returned as an error before the count is looked at.
C16_FillCounts ==
    wres.op = "Fill" =>
        /\ FilledShape(wres.nbPublic + wres.nbSecret)
        /\ (wres.err = ErrNil /\ wres.panic = "") => FilledFromSource
        /\ Len(wres.source) < wres.nbPublic + wres.nbSecret =>
               wres.err # ErrNil /\ wres.panic = ""
        /\ Len(wres.source) > wres.nbPublic + wres.nbSecret =>
               IF FirstConvertible(wres.nbPublic + wres.nbSecret)
               THEN /\ wres.err = ErrNil
                    /\ wres.panic = "chan of values returns more elements than expected"
               ELSE wres.err # ErrNil /\ wres.panic = ""
        /\ (/\ Len(wres.source) = wres.nbPublic + wres.nbSecret
            /\ FirstConvertible(wres.nbPublic + wres.nbSecret)) =>
               wres.err = ErrNil /\ wres.panic = ""

\* the source yielded one value more than the three asked for, all convertible
C16_Witness ==
    /\ wres.op = "Fill"
    /\ wres.nbPublic + wres.nbSecret = 3
    /\ Len(wres.source) = 4
    /\ FirstConvertible(4)
    /\ wres.panic # ""
    /\ wit.vector.len = 3

\* C17: Public() returns a new witness holding exactly the first nbPublic
\* values of the original, with the original's nbPublic and nbSecret = 0;
\* the original keeps its counts and its vector; a later write to the vector
\* of either witness does not show in the other.
C17_PublicIsIndependent ==
    pub # NilWitness =>
        /\ pub.nbPublic = wit.nbPublic
        /\ pub.nbSecret = 0
        /\ pub.vector.len = wit.nbPublic
        /\ pub.vector.addr # wit.vector.addr
        /\ VectorOf(heap, pub.vector) = shadow.pub
        /\ VectorOf(heap, wit.vector) = shadow.wit
        /\ wit.vector.len = wit.nbPublic + wit.nbSecret

\* one of the two witnesses was written after Public(), and the two now differ
C17_Witness ==
    /\ pub # NilWitness
    /\ wres.writes = 1
    /\ wit.nbPublic = 2
    /\ wit.nbSecret = 1
    /\ VectorOf(heap, pub.vector) # SubSeq(VectorOf(heap, wit.vector), 1, 2)

(***************************************************************************)
(* Properties of the deserialization of a system                           *)
(***************************************************************************)
\* C18: ReadFrom returns an error whenever the scalar-field header of the
\* decoded system is not a hex number or is a hex number other than the
\* modulus of the running field; a system with such a header is never
\* accepted.
C18_MismatchingHeaderRejected ==
    (/\ decoded.done
     /\ header.intact
     /\ \/ ~IsHex(header.ScalarField)
        \/ HexValue(header.ScalarField) # q) =>
        decoded.err # ErrNil

(***************************************************************************)
(* Properties of the hint registry                                         *)
(***************************************************************************)
\* C19: over any sequence of RegisterHint and RegisterHints calls, an id in
\* the global registry stays mapped to the function first registered under
\* it, and a call that registers only ids already in the registry leaves the
\* registry unchanged.
C19_FirstRegistrationStays ==
    [][/\ \A id \in DOMAIN globalRegistry :
              /\ id \in DOMAIN globalRegistry'
              /\ globalRegistry'[id] = globalRegistry[id]
       /\ (/\ regLog' # <<>>
           /\ \A k \in DOMAIN regLog' : regLog'[k].ID \in DOMAIN globalRegistry) =>
              globalRegistry' = globalRegistry]_vars

\* n_bits was registered again under another function, and the first one stayed
C19_Witness ==
    /\ Len(regLog) = 1
    /\ regLog[1].ID = GetHintID("n_bits")
    /\ regLog[1].ID \in DOMAIN globalRegistry
    /\ globalRegistry[regLog[1].ID] # regLog[1].Fn

(***************************************************************************)
(* Properties of the errors of hint functions                              *)
(***************************************************************************)
\* C20: when the function of a hint instruction returns an error, Solve
\* fails with an error that carries that error's text and the name of the
\* hint that failed.
C20_HintErrorNamesHint ==
    \A i \in InstructionIds :
        (/\ pc = "done"
         /\ failed = {i}
         /\ ~IsR1C(i)
         /\ HintOf(i).HintID \in DOMAIN hintFunctions
         /\ result.kind = "error") =>
            /\ result.err.text \in {"input must be 3 elements",
                                    "need %d outputs instead to decompose"}
            /\ cs.MHintsDependencies[HintOf(i).HintID] \in result.err.names

(***************************************************************************)
(* Properties of the level builder                                         *)
(***************************************************************************)
LbInstructions == 0 .. Len(lb.descs) - 1

\* the wires that exist before any instruction: ONE, public and secret
PreExisting == DOMAIN NewBuilder.wireLevel

\* the level that holds instruction i
LbLevelOf(i) ==
    CHOOSE k \in 0 .. Len(lb.Levels) - 1 :
        \E j \in DOMAIN lb.Levels[k + 1] : lb.Levels[k + 1][j] = i

\* the wires instruction i writes: those no earlier instruction mentions and
\* that do not exist beforehand; and the other wires it mentions, which it reads
LbWrites(i) ==
    LevelWires(lb.descs[i + 1])
        \ (PreExisting \cup UNION {LevelWires(lb.descs[j + 1]) : j \in 0 .. i - 1})

LbReads(i) == LevelWires(lb.descs[i + 1]) \ LbWrites(i)

\* C21: the levels of a system built by appending instructions in order hold
\* every instruction index exactly once and nothing else; every wire an
\* instruction of level k reads but does not write exists beforehand or is
\* written by an instruction of a level below k; and the level of an
\* instruction is 1 + the highest level among the writers of the wires it
\* reads (-1 when they all exist beforehand).
C21_LevelsCoverAndOrder ==
    /\ \A k \in DOMAIN lb.Levels :
           \A j \in DOMAIN lb.Levels[k] : lb.Levels[k][j] \in LbInstructions
    /\ \A i \in LbInstructions :
           /\ Cardinality({k \in DOMAIN lb.Levels :
                              \E j \in DOMAIN lb.Levels[k] : lb.Levels[k][j] = i}) = 1
           /\ \A k \in DOMAIN lb.Levels :
                  Cardinality({j \in DOMAIN lb.Levels[k] : lb.Levels[k][j] = i}) <= 1
    /\ \A i \in LbInstructions :
           /\ \A w \in LbReads(i) :
                  \/ w \in PreExisting
                  \/ \E i2 \in LbInstructions :
                         LbLevelOf(i2) < LbLevelOf(i) /\ w \in LbWrites(i2)
           /\ LbLevelOf(i) =
                  1 + MaxOf({LbLevelOf(i2) :
                                i2 \in {i3 \in LbInstructions :
                                           LbWrites(i3) \cap LbReads(i) # {}}}
                            \cup {-1})

\* two independent instructions share level 0 and a third, which reads a wire
\* one of them writes, is in level 1
C21_Witness ==
    /\ Len(lb.descs) = 3
    /\ Len(lb.Levels) = 2
    /\ lb.Levels[1] = <<0, 1>>
    /\ lb.Levels[2] = <<2>>
    /\ LbReads(2) \cap (LbWrites(0) \cup LbWrites(1)) # {}

(***************************************************************************)
(* Properties of solveR1C, solveWithHint and SetValue on one solver        *)
(***************************************************************************)
\* the wire is solved in the solver the operation was called on, and after it
SolvedBeforeOp(w) == At(ops.before.solved, w)

SolvedAfterOp(w) == At(ops.after.solved, w)

\* the terms of the R1C passed to solveR1C, side by side, and those on wires
\* that were not solved
OpsSide(side) ==
    CASE side = 1 -> Elems(ops.r1c.L)
      [] side = 2 -> Elems(ops.r1c.R)
      [] OTHER -> Elems(ops.r1c.O)

UnsolvedTerms(side) == {k \in DOMAIN OpsSide(side) : ~SolvedBeforeOp(OpsSide(side)[k].VID)}

NbUnsolvedTerms ==
    Cardinality(UnsolvedTerms(1)) + Cardinality(UnsolvedTerms(2))
        + Cardinality(UnsolvedTerms(3))

\* the side of the only unsolved term, and that term
UnknownSide == CHOOSE side \in 1 .. 3 : UnsolvedTerms(side) # {}

UnknownTerm == OpsSide(UnknownSide)[CHOOSE k \in UnsolvedTerms(UnknownSide) : TRUE]

CoeffValue(cid) == At(ops.before.system.Coefficients, cid)

\* the sum of coefficient * value over the terms of a side: over the solved
\* wires with the values before the call, over all wires with those after it
RECURSIVE SumTerms(_, _, _)
SumTerms(terms, values, solvedOnly) ==
    IF terms = <<>> THEN 0
    ELSE Add(IF solvedOnly /\ ~SolvedBeforeOp(Head(terms).VID)
             THEN 0
             ELSE Mul(CoeffValue(Head(terms).CID), At(values, Head(terms).VID)),
             SumTerms(Tail(terms), values, solvedOnly))

KnownSum(side) == SumTerms(OpsSide(side), ops.before.values, TRUE)

FinalSum(side) == SumTerms(OpsSide(side), ops.after.values, FALSE)

\* the call changed no value and no solved flag
NothingAssigned ==
    /\ ops.after.values = ops.before.values
    /\ ops.after.solved = ops.before.solved
    /\ ops.after.nbSolved = ops.before.nbSolved

\* the case of C22: the only unsolved term is on L, and b = 0, c = 0
UnknownOnLWithZeroB ==
    /\ ops.op = "solveR1C"
    /\ NbUnsolvedTerms = 1
    /\ UnknownSide = 1
    /\ KnownSum(2) = 0
    /\ KnownSum(3) = 0

\* C22 as stated: with the only unsolved term on L, b = 0 and c = 0, the
\* constraint is verified and no value is assigned: the wire stays unsolved
\* and the counter of solved wires is not incremented.
C22_UnknownStaysUnsolved ==
    UnknownOnLWithZeroB =>
        /\ ops.err = ErrNil
        /\ ops.panic = ""
        /\ ~SolvedAfterOp(UnknownTerm.VID)
        /\ ops.after.nbSolved = ops.before.nbSolved

\* C22: with the only unsolved term on L, b = 0 and c = 0, the constraint is
\* verified without error and the unsolved wire is assigned 0: it is marked
\* solved and the counter of solved wires is incremented (a term whose
\* coefficient id is that of zero panics in the division instead).
C22_UnknownSetToZero ==
    UnknownOnLWithZeroB =>
        /\ ops.err = ErrNil
        /\ IF UnknownTerm.CID = CoeffIdZero
           THEN ops.panic = "division by 0" /\ ~SolvedAfterOp(UnknownTerm.VID)
           ELSE /\ ops.panic = ""
                /\ SolvedAfterOp(UnknownTerm.VID)
                /\ At(ops.after.values, UnknownTerm.VID) = 0
                /\ ops.after.nbSolved = ops.before.nbSolved + 1

\* (X - 2 w3) * Y = 0 with Y = 0 was solved: w3 got the value 0
C22_Witness ==
    /\ UnknownOnLWithZeroB
    /\ UnknownTerm = Term(CoeffIdMinusTwo, 3)
    /\ Len(OpsSide(1)) = 2
    /\ OpsSide(2) = <<T1(2)>>
    /\ SolvedAfterOp(3)
    /\ At(ops.after.values, 3) = 0

\* the case of C23: one unsolved term, of a coefficient that is not zero, on O,
\* or on L with b # 0, or on R with a # 0
UnknownDetermined ==
    /\ ops.op = "solveR1C"
    /\ NbUnsolvedTerms = 1
    /\ CoeffValue(UnknownTerm.CID) # 0
    /\ \/ UnknownSide = 3
       \/ UnknownSide = 1 /\ KnownSum(2) # 0
       \/ UnknownSide = 2 /\ KnownSum(1) # 0

\* the value the unsolved term must take: a*b - c on O, c/b - a on L, c/a - b on R
TermValue ==
    CASE UnknownSide = 3 -> Sub(Mul(KnownSum(1), KnownSum(2)), KnownSum(3))
      [] UnknownSide = 1 -> Sub(Div(KnownSum(3), KnownSum(2)), KnownSum(1))
      [] OTHER -> Sub(Div(KnownSum(3), KnownSum(1)), KnownSum(2))

\* C23: when exactly one term of the R1C is on an unsolved wire, with a
\* coefficient k # 0 under any coefficient id, and the term is on O, or on L
\* with b # 0, or on R with a # 0, solveR1C assigns the wire the value
\* term-value / k, so that L * R = O holds over the assigned values, marks the
\* wire solved and leaves every other wire alone.
C23_UnknownSolved ==
    UnknownDetermined =>
        /\ ops.panic = ""
        /\ ops.err = ErrNil
        /\ SolvedAfterOp(UnknownTerm.VID)
        /\ Mul(CoeffValue(UnknownTerm.CID), At(ops.after.values, UnknownTerm.VID)) = TermValue
        /\ Mul(FinalSum(1), FinalSum(2)) = FinalSum(3)
        /\ ops.after.a[1] = FinalSum(1)
        /\ ops.after.b[1] = FinalSum(2)
        /\ ops.after.c[1] = FinalSum(3)
        /\ ops.after.nbSolved = ops.before.nbSolved + 1
        /\ \A w \in 0 .. Len(ops.before.values) - 1 :
               w # UnknownTerm.VID =>
                   /\ At(ops.after.values, w) = At(ops.before.values, w)
                   /\ SolvedAfterOp(w) = SolvedBeforeOp(w)

\* (X - w3) * Y = 2 X + 1 was solved for w3 with Y # 0, and w3 is not zero
C23_Witness ==
    /\ UnknownDetermined
    /\ UnknownSide = 1
    /\ UnknownTerm = Term(CoeffIdMinusOne, 3)
    /\ Len(OpsSide(1)) = 2
    /\ OpsSide(3) = <<Term(CoeffIdTwo, 1), T1(0)>>
    /\ SolvedAfterOp(3)
    /\ At(ops.after.values, 3) # 0

\* C24: solveR1C never assigns a wire of an R1C that has two or more terms on
\* unsolved wires: it panics and no value, solved flag or counter changes; with
\* no term on an unsolved wire it assigns nothing either and only checks
\* a * b = c, returning the error of the unsatisfied constraint when it fails.
C24_AtMostOneUnknown ==
    ops.op = "solveR1C" =>
        /\ NbUnsolvedTerms >= 2 =>
               /\ ops.panic = "found more than one wire to instantiate"
               /\ NothingAssigned
        /\ NbUnsolvedTerms = 0 =>
               /\ ops.panic = ""
               /\ NothingAssigned
               /\ ops.err = IF Mul(KnownSum(1), KnownSum(2)) = KnownSum(3)
                            THEN ErrNil
                            ELSE unsatisfied(KnownSum(1), KnownSum(2), KnownSum(3))

\* (X + w3) * (X + 2 w3) = w4 was refused: two wires, three terms to instantiate
C24_Witness ==
    /\ ops.op = "solveR1C"
    /\ NbUnsolvedTerms = 3
    /\ Cardinality(UnsolvedTerms(1)) = 1
    /\ Cardinality(UnsolvedTerms(2)) = 1
    /\ ops.panic = "found more than one wire to instantiate"

OpsWires == 0 .. Len(ops.before.values) - 1

SameWireTwice == "solving the same wire twice should never happen."

\* the wires a hint writes
HintOutputs(h) == h.OutputRange.Start .. h.OutputRange.End - 1

\* C25: the value and the solved flag of a wire are written at most once: an
\* operation of the solver leaves a solved wire solved, with its value, and an
\* attempt to set a wire that is already solved, by SetValue or for the output
\* of a hint, panics; a wire that was not solved is written by set once.
C25_WrittenOnce ==
    /\ \A w \in OpsWires :
           SolvedBeforeOp(w) =>
               /\ SolvedAfterOp(w)
               /\ At(ops.after.values, w) = At(ops.before.values, w)
    /\ (ops.op = "SetValue" /\ ops.wire \in OpsWires) =>
           IF SolvedBeforeOp(ops.wire)
           THEN ops.panic = SameWireTwice /\ NothingAssigned
           ELSE /\ ops.panic = ""
                /\ SolvedAfterOp(ops.wire)
                /\ At(ops.after.values, ops.wire) = ops.value
                /\ ops.after.nbSolved = ops.before.nbSolved + 1
    /\ (ops.op = "solveWithHint"
            /\ \E w \in HintOutputs(ops.hint) \cap OpsWires : SolvedBeforeOp(w)) =>
           ops.panic = SameWireTwice
    /\ ops.op = "solveR1C" =>
           \A w \in OpsWires :
               (~SolvedBeforeOp(w) /\ SolvedAfterOp(w)) =>
                   /\ NbUnsolvedTerms = 1
                   /\ UnknownTerm.VID = w
                   /\ ops.after.nbSolved = ops.before.nbSolved + 1

\* a hint whose first output is a wire solved earlier in the solve was refused
C25_Witness ==
    /\ ops.op = "solveWithHint"
    /\ ops.hint.OutputRange.Start = 3
    /\ SolvedBeforeOp(3)
    /\ ops.panic = SameWireTwice

(***************************************************************************)
(* Properties of the workers of a level                                    *)
(***************************************************************************)
\* worker w is in the loop over its task, an instruction ahead of it
Busy(w) == workers[w].state = "work" /\ workers[w].pos < Len(workers[w].task)

CurrentOf(w) == At(workers[w].task, workers[w].pos)

\* the entries values[v], solved[v] an instruction may write: for an R1C the wire of a term that is not solved
\* yet, for a hint its output range
MayWrite(i) ==
    IF IsR1C(i)
    THEN {v \in WiresOf(i) : v < Len(solver.solved) /\ ~At(solver.solved, v)}
    ELSE HintOf(i).OutputRange.Start .. HintOf(i).OutputRange.End - 1

\* the entries it reads or writes: those of the wires of its terms and, in set,
\* those it writes
MayAccess(i) == WiresOf(i) \cup MayWrite(i)

\* the entry of a, b and c an instruction writes
VectorEntries(i) == IF IsR1C(i) THEN {At(cs.Instructions, i).ConstraintOffset} ELSE {}

\* two instructions in the hands of two workers touch a common entry, one of
\* them writing it
Conflict(i, j) ==
    \/ MayWrite(i) \cap MayAccess(j) # {}
    \/ MayWrite(j) \cap MayAccess(i) # {}
    \/ VectorEntries(i) \cap VectorEntries(j) # {}

\* C26: when the levels satisfy the dependency invariant, two workers that are
\* processing instructions of a level at the same time never access the same
\* entry of values and solved, or of a, b and c, with one of them writing it.
C26_WorkersDoNotConflict ==
    \/ \A w1, w2 \in Workers :
           (w1 # w2 /\ Busy(w1) /\ Busy(w2)) => ~Conflict(CurrentOf(w1), CurrentOf(w2))
    \/ ~DependencyInvariant

\* two workers are each about to solve a wire of the wide level
C26_Witness ==
    /\ cs = CircuitParallel
    /\ \E w1, w2 \in Workers :
           /\ w1 # w2
           /\ Busy(w1)
           /\ Busy(w2)
           /\ workers[w1].pos > 0
           /\ workers[w2].pos > 0
           /\ MayWrite(CurrentOf(w1)) # {}
           /\ MayWrite(CurrentOf(w2)) # {}
    /\ DependencyInvariant

NbSolvedFlags == Cardinality({i \in DOMAIN solver.solved : solver.solved[i]})

\* C27: when the solver has been created and at every level boundary, the
\* workers of the level before having finished, nbSolved is the number of wires
\* whose solved flag is true: no increment of a worker is lost.
C27_CounterMatchesFlags ==
    pc \in {"run", "level"} => solver.nbSolved = NbSolvedFlags

\* the two workers have solved the wires of the wide level, the level is over
C27_Witness ==
    /\ cs = CircuitParallel
    /\ pc = "level"
    /\ lvl > 0
    /\ failed = {}
    /\ Cardinality(processed) >= ParallelWidth
    /\ solver.nbSolved > Len(witness) + 1

(***************************************************************************)
(* Properties of the dispatch of a level                                   *)
(***************************************************************************)
\* the loop that sends the tasks of the level is over
AllSent == dp.mode = "parallel" /\ dp.d.i = dp.d.nbTasks

\* C28 as stated: a level is run sequentially, no task being sent, whenever it
\* holds fewer than 2 * minWorkPerCPU = 100 instructions; only levels of 100
\* instructions or more go to the workers.
C28_SequentialBelowHundred ==
    dp.mode \in {"sequential", "parallel"} =>
        (dp.mode = "sequential" <=> Len(dp.level) < 2 * minWorkPerCPU)

\* C28: a level is run sequentially by the loop of run, no task being sent,
\* whenever it holds at most minWorkPerCPU = 50 instructions; every level of
\* 51 instructions or more is cut into tasks for the workers.
C28_SequentialUpToFifty ==
    /\ dp.mode = "sequential" => (Len(dp.level) <= 50 /\ dp.tasks = <<>>)
    /\ dp.mode = "parallel" => Len(dp.level) >= 51
    /\ AllSent => dp.tasks # <<>>

\* a level of 51 instructions went to the workers, in two tasks
C28_Witness ==
    /\ AllSent
    /\ Len(dp.level) = 51
    /\ dp.numCPU = 2
    /\ Len(dp.tasks) = 2

RECURSIVE Concat(_)
Concat(ss) == IF ss = <<>> THEN <<>> ELSE Head(ss) \o Concat(Tail(ss))

\* C29: for every level that goes to the workers, on every number of CPUs, the
\* tasks sent are at most that many sub-ranges of the level, none of them
\* empty, following one another: put end to end they are the level, each
\* instruction being in one task; their sizes differ by at most one and the
\* larger tasks come first.
C29_TasksPartitionLevel ==
    /\ dp.mode = "parallel" =>
           /\ Len(dp.tasks) <= dp.numCPU
           /\ Concat(dp.tasks) = SubSeq(dp.level, 1, Len(Concat(dp.tasks)))
           /\ \A j \in DOMAIN dp.tasks : dp.tasks[j] # <<>>
           /\ \A j, k \in DOMAIN dp.tasks :
                  j < k => /\ Len(dp.tasks[j]) >= Len(dp.tasks[k])
                           /\ Len(dp.tasks[j]) - Len(dp.tasks[k]) <= 1
    /\ AllSent =>
           /\ Concat(dp.tasks) = dp.level
           /\ Len(dp.tasks) >= 1

\* 152 instructions on three CPUs: two tasks of 51 and one of 50
C29_Witness ==
    /\ AllSent
    /\ dp.numCPU = 3
    /\ Len(dp.level) = 152
    /\ Len(dp.tasks) = 3
    /\ Len(dp.tasks[1]) = 51
    /\ Len(dp.tasks[3]) = 50

(***************************************************************************)
(* Properties of a level in which an instruction fails                     *)
(***************************************************************************)
\* the level of the instructions that failed, and the tasks it was cut into
FailedLevel == At(cs.Levels, LevelOf(CHOOSE f \in failed : TRUE))

RECURSIVE TasksFrom(_, _)
TasksFrom(level, d) ==
    IF d.i >= d.nbTasks THEN <<>>
    ELSE <<taskSlice(level, d)>> \o TasksFrom(level, nextDisp(d))

FailedTasks == TasksFrom(FailedLevel, dispatchPlan(FailedLevel))

\* the instructions of a sequence were processed up to the first that failed,
\* and no further
StoppedAtFailure(t) ==
    \E p \in DOMAIN t :
        /\ Range(t) \cap failed = {t[p]}
        /\ Range(t) \cap processed = {t[k] : k \in 1 .. p}

\* C30 as stated: when an instruction of a level fails, every instruction of
\* that level has been processed when Solve returns.
C30_LevelFinishedOnError ==
    (pc = "done" /\ failed # {}) => Range(FailedLevel) \subseteq processed

\* C30: when an instruction fails in a level run sequentially, Solve returns
\* the error at once and the rest of the level is not processed; in a level
\* run by the workers the task of the failing instruction is abandoned at that
\* instruction, the other tasks are run to their end or to their own first
\* error before Solve returns, and Solve returns an error a worker sent.
C30_TaskAbandonedOnError ==
    (pc = "done" /\ failed # {}) =>
        /\ result.kind = "error"
        /\ IF runsSequentially(FailedLevel)
           THEN StoppedAtFailure(FailedLevel)
           ELSE /\ \A j \in DOMAIN FailedTasks :
                       \/ /\ Range(FailedTasks[j]) \cap failed = {}
                          /\ Range(FailedTasks[j]) \subseteq processed
                       \/ StoppedAtFailure(FailedTasks[j])
                /\ \E w \in Workers :
                       workers[w].err # ErrNil /\ result = ErrResult(workers[w].err)

\* the task of the first worker was abandoned at its failing instruction, the
\* other task was run to its end
C30_Witness ==
    /\ cs = CircuitParallel
    /\ pc = "done"
    /\ Cardinality(failed) = 1
    /\ ~(Range(FailedLevel) \subseteq processed)
    /\ \E j \in DOMAIN FailedTasks : Range(FailedTasks[j]) \subseteq processed

(***************************************************************************)
(* Termination of run and of the worker pool                               *)
(***************************************************************************)
\* run is between the start of the pool and its return
Running == pc \in {"run", "level", "seq", "dispatch", "wait"}

\* run is blocked: in the send of a task to a full channel, or in wg.Wait()
RunBlocked ==
    \/ pc = "dispatch" /\ Len(chTasks) >= NumCPU
    \/ pc = "wait" /\ wg > 0

\* worker w is blocked or gone: in the receive from the empty, open task
\* channel, in the send to the full error channel, or after its return
WorkerBlocked(w) ==
    \/ workers[w].state = "recv" /\ chTasks = <<>> /\ ~closed
    \/ workers[w].state = "send" /\ Len(chError) >= NumCPU
    \/ workers[w].state \in {"none", "exit"}

\* C31: run never deadlocks: when it is about to send a task the task channel
\* has room, a worker about to send an error finds room in the error channel,
\* which is still open, and until run has returned (or the process panicked)
\* some goroutine can take a step, also when workers have left after an error.
C31_RunNeverBlocks ==
    /\ pc = "dispatch" => Len(chTasks) < NumCPU
    /\ \A w \in Workers :
           workers[w].state = "send" => (Len(chError) < NumCPU /\ ~closed)
    /\ Running => ~(RunBlocked /\ \A w \in Workers : WorkerBlocked(w))

\* run returned from a level in which both workers had left after an error
C31_Witness ==
    /\ cs = CircuitParallel
    /\ pc = "done"
    /\ Cardinality(failed) = 2
    /\ Cardinality({w \in Workers : workers[w].state = "exit" /\ workers[w].err # ErrNil}) = 2

(***************************************************************************)
(* Properties of processInstruction on a self-solving blueprint            *)
(***************************************************************************)
\* C33: for an instruction whose blueprint implements neither the R1C nor the
\* hint interface but implements self-solve, processInstruction calls the
\* blueprint's Solve with the solver and the call-data of the instruction and
\* returns its result: the solver is left as Solve leaves it.
C33_SelfSolveDispatched ==
    ops.op = "processInstruction" =>
        LET solved == BlueprintSolve(ops.before,
                                     GetCallData(ops.before.system, LastInstruction(ops.before)))
        IN  /\ ops.after = solved.s
            /\ ops.err = solved.err
            /\ ops.panic = solved.panic

(***************************************************************************)
(* Properties of solveWithHint                                             *)
(***************************************************************************)
\* the value of an input of a hint: the sum of coeff * value over the terms on
\* wires and of coeff over the constant terms, on the values before the call
RECURSIVE InputValue(_)
InputValue(terms) ==
    IF terms = <<>> THEN 0
    ELSE Add(IF Head(terms).VID = MaxUint32
             THEN CoeffValue(Head(terms).CID)
             ELSE Mul(CoeffValue(Head(terms).CID), At(ops.before.values, Head(terms).VID)),
             InputValue(Tail(terms)))

\* what the function of the hint returns on these inputs and on end - start
\* outputs set to zero
HintReturned(h) ==
    CallHint(ops.before.mHintsFunctions[h.HintID], q,
             [i \in 1 .. h.Inputs.len |-> InputValue(Elems(h.Inputs.arr[i]))],
             [i \in 1 .. h.OutputRange.End - h.OutputRange.Start |-> 0])

\* the case of C34: the hint is registered and writes wires that are not solved
HintCanRun(h) ==
    /\ ops.op = "solveWithHint"
    /\ h.HintID \in DOMAIN ops.before.mHintsFunctions
    /\ h.OutputRange.End >= h.OutputRange.Start
    /\ HintOutputs(h) \subseteq OpsWires
    /\ \A w \in HintOutputs(h) : ~SolvedBeforeOp(w)
    /\ HintReturned(h).panic = ""

\* C34: solveWithHint with a registered hint evaluates each input as the sum
\* of coeff * value over the terms on wires plus coeff over the constant
\* terms, calls the hint once with end - start outputs set to zero, also when
\* end = start, returns what the hint returned, and assigns output i, reduced
\* modulo the field, to wire start + i: exactly the wires start .. end - 1
\* become solved, no other wire changes.
C34_HintOutputsAssigned ==
    HintCanRun(ops.hint) =>
        /\ ops.panic = ""
        /\ ops.err = HintReturned(ops.hint).err
        /\ \A w \in OpsWires :
               IF w \in HintOutputs(ops.hint)
               THEN /\ SolvedAfterOp(w)
                    /\ At(ops.after.values, w)
                           = HintReturned(ops.hint).outputs[w - ops.hint.OutputRange.Start + 1] % q
               ELSE /\ SolvedAfterOp(w) = SolvedBeforeOp(w)
                    /\ At(ops.after.values, w) = At(ops.before.values, w)
        /\ ops.after.nbSolved
               = ops.before.nbSolved + ops.hint.OutputRange.End - ops.hint.OutputRange.Start

\* inv_zero was called on 2 X + 3 - Y, which is not zero, and wire 3 holds the
\* inverse
C34_Witness ==
    /\ HintCanRun(ops.hint)
    /\ ops.hint.HintID = InvZeroID
    /\ Len(Elems(ops.hint.Inputs.arr[1])) = 3
    /\ InputValue(Elems(ops.hint.Inputs.arr[1])) # 0
    /\ SolvedAfterOp(3)
    /\ Mul(At(ops.after.values, 3), InputValue(Elems(ops.hint.Inputs.arr[1]))) = 1

(***************************************************************************)
(* Properties of the system a frontend builds                              *)
(***************************************************************************)
\* the calls that appended an instruction, in order, and the instruction each
\* of them appended
InstructionCalls == {k \in DOMAIN sb.log : sb.log[k].kind \in {"r1c", "hint"}}

InstructionOfCall(k) == At(sb.sys.Instructions, sb.log[k].ret)

\* C35: after any sequence of appends of R1Cs and hints, every instruction
\* recorded so far lies within the call-data: its start plus its length is at
\* most the length of the call-data, the first word of its call-data is its
\* length, and GetCallData returns the words produced when it was compressed,
\* whatever was appended after it.
C35_CallDataKept ==
    /\ Cardinality(InstructionCalls) = Len(sb.sys.Instructions)
    /\ \A k \in InstructionCalls :
           /\ InstructionOfCall(k).StartCallData < Len(sb.sys.CallData)
           /\ InstructionOfCall(k).StartCallData + Len(sb.log[k].words)
                  <= Len(sb.sys.CallData)
           /\ At(sb.sys.CallData, InstructionOfCall(k).StartCallData) = Len(sb.log[k].words)
           /\ GetCallData(sb.sys, InstructionOfCall(k)) = sb.log[k].words

\* a hint, then two R1Cs of different lengths were appended
C35_Witness ==
    /\ Len(sb.sys.Instructions) = 3
    /\ Len(sb.log) >= 3
    /\ sb.log[1].kind = "hint"
    /\ sb.log[2].kind = "r1c"
    /\ sb.log[3].kind = "r1c"
    /\ Len(sb.log[2].words) > Len(sb.log[3].words)
    /\ GetCallData(sb.sys, At(sb.sys.Instructions, 0)) = sb.log[1].words

\* the calls that appended an R1C, and the number of them before call k
R1CCalls == {k \in DOMAIN sb.log : sb.log[k].kind = "r1c"}

R1CsBefore(k) == Cardinality({j \in R1CCalls : j < k})

\* C36: after any sequence of appends of R1Cs and hints, the constraint
\* offsets of the R1C instructions are pairwise distinct and are 0, 1, ...,
\* NbConstraints - 1 in the order of the appends; appending a hint leaves
\* NbConstraints as it was.
C36_ConstraintOffsetsInOrder ==
    /\ sb.sys.NbConstraints = Cardinality(R1CCalls)
    /\ \A k \in R1CCalls : InstructionOfCall(k).ConstraintOffset = R1CsBefore(k)
    /\ \A j, k \in R1CCalls :
           j # k => InstructionOfCall(j).ConstraintOffset # InstructionOfCall(k).ConstraintOffset

\* an R1C, a hint, an R1C: the offsets are 0 and 1
C36_Witness ==
    /\ Len(sb.log) = 3
    /\ sb.log[1].kind = "r1c"
    /\ sb.log[2].kind = "hint"
    /\ sb.log[3].kind = "r1c"
    /\ InstructionOfCall(3).ConstraintOffset = 1
    /\ sb.sys.NbConstraints = 2

\* the calls that added a variable
VariableCalls == {k \in DOMAIN sb.log : sb.log[k].kind \in {"public", "secret", "internal"}}

KindRank(kind) == CASE kind = "public" -> 0 [] kind = "secret" -> 1 [] OTHER -> 2

\* the variables were added in the order of the index space: the public ones,
\* then the secret ones, then the internal ones
AddedInOrder ==
    \A j, k \in VariableCalls : j < k => KindRank(sb.log[j].kind) <= KindRank(sb.log[k].kind)

DistinctIds == \A j, k \in VariableCalls : j # k => sb.log[j].ret # sb.log[k].ret

\* the ids returned are 0 .. n - 1, the public wires first, then the secret
\* ones, then the internal ones
ContiguousPartition ==
    /\ {sb.log[k].ret : k \in VariableCalls} = 0 .. Cardinality(VariableCalls) - 1
    /\ \A j, k \in VariableCalls :
           KindRank(sb.log[j].kind) < KindRank(sb.log[k].kind) => sb.log[j].ret < sb.log[k].ret

\* C37 as stated: for any sequence of AddPublicVariable, AddSecretVariable and
\* AddInternalVariable calls in any order, every wire id returned is distinct
\* from the ids returned earlier and the ids form the contiguous partition
\* [public | secret | internal].
C37_IdsDistinctInAnyOrder == DistinctIds /\ ContiguousPartition

\* C37: when the public variables are added before the secret ones and these
\* before the internal ones, every wire id returned is distinct from the ids
\* returned earlier and the ids form the contiguous partition [public | secret
\* | internal] of 0 .. nbPublic + nbSecret + nbInternal - 1; in any order the
\* id returned is the number of public (resp. public and secret, resp. all)
\* variables added so far.
C37_IdsDistinctInOrder ==
    /\ AddedInOrder => (DistinctIds /\ ContiguousPartition)
    /\ \A k \in VariableCalls :
           sb.log[k].ret =
               Cardinality({j \in VariableCalls :
                               j < k /\ KindRank(sb.log[j].kind) <= KindRank(sb.log[k].kind)})

\* a public, a secret and two internal variables got the ids 0, 1, 2, 3
C37_Witness ==
    /\ Len(sb.log) = 4
    /\ AddedInOrder
    /\ sb.log[1].kind = "public"
    /\ sb.log[2].kind = "secret"
    /\ sb.log[3].kind = "internal"
    /\ sb.log[4].kind = "internal"
    /\ sb.log[4].ret = 3

(***************************************************************************)
(* Properties of a call that registers several hints                       *)
(***************************************************************************)
\* C38: after a call RegisterHint(h1, ..., hn) every id among h1 .. hn is
\* in the global registry, the ids that follow an id already registered
\* included.
C38_EveryHintRegistered ==
    \A k \in DOMAIN regLog : regLog[k].ID \in DOMAIN globalRegistry

(***************************************************************************)
(* Properties of the coefficient table of a system read back               *)
(***************************************************************************)
ReservedCoeffs == {0, 1, 2 % q, Neg(1), Neg(2)}

\* the table was read back from a stream
WasDecoded == \E k \in DOMAIN coeffLog : coeffLog[k][3] = "ReadFrom"

LastCoeffCall == coeffLog'[Len(coeffLog')]

\* C39: on a system obtained by WriteTo followed by ReadFrom, AddCoeff(e) for
\* a non-reserved value e already in the decoded coefficient table returns
\* the id e has in the table and does not append a second copy.
C39_DedupSurvivesSerialization ==
    [][(/\ Len(coeffLog') = Len(coeffLog) + 1
        /\ LastCoeffCall[3] = "AddCoeff"
        /\ WasDecoded
        /\ LastCoeffCall[1] \notin ReservedCoeffs
        /\ LastCoeffCall[1] \in Range(table.Coefficients)) =>
           /\ table'.Coefficients = table.Coefficients
           /\ At(table.Coefficients, LastCoeffCall[2]) = LastCoeffCall[1]]_vars

(***************************************************************************)
(* Properties of the length of the vector of a witness                     *)
(***************************************************************************)
LengthMatchesCounts(wt) == wt.vector.len = wt.nbPublic + wt.nbSecret

\* C40: in every state reached with New, Fill, Public and ReadFrom the
\* length of the vector of a witness is nbPublic + nbSecret: of the witness
\* filled when Fill returned nil, of the witness Public returned, and of the
\* witness read when ReadFrom returned nil, so that ReadFrom accepts no
\* encoding whose vector length differs from the sum of its two counts.
C40_VectorLenMatchesCounts ==
    /\ (wres.op \in {"New", "Fill"} /\ wres.err = ErrNil /\ wres.panic = "") =>
           LengthMatchesCounts(wit)
    /\ pub # NilWitness => LengthMatchesCounts(pub)
    /\ (wres.op = "ReadFrom" /\ wres.err = ErrNil) => LengthMatchesCounts(readBack)

(***************************************************************************)
(* Properties of the worker pool once run has returned                     *)
(***************************************************************************)
\* run has returned: its deferred close of the channels has run
RunReturned == pc = "done" /\ closed

\* worker w has left its loop, or is at the receive of the range over the
\* task channel, which ends since the channel is closed and empty
ExitsNext(w) ==
    \/ workers[w].state = "exit"
    \/ workers[w].state = "recv" /\ chTasks = <<>> /\ closed

\* C32: once run has returned, with a solution or with the error of a
\* sequential level, of a parallel level or of the final count, the task
\* channel is closed and empty and every worker has left its loop or leaves
\* it at its next step; from then to the next Solve call no step sends on
\* the error channel or writes a wire.
C32_PoolShutsDownAfterRun ==
    [][/\ RunReturned' => (wg' = 0 /\ \A w \in Workers : ExitsNext(w)')
       /\ (RunReturned /\ RunReturned') =>
              /\ chError' = chError
              /\ solver' = solver
              /\ \A w \in Workers :
                     workers'[w] = workers[w] \/ workers'[w].state = "exit"]_vars

\* run returned the error of a parallel level; one worker left after
\* sending it, the other one at the end of the range over the closed channel
C32_Witness ==
    /\ RunReturned
    /\ cs = CircuitParallel
    /\ result.kind = "error"
    /\ \A w \in Workers : workers[w].state = "exit"
    /\ \E w \in Workers : workers[w].err # ErrNil
    /\ \E w \in Workers : workers[w].err = ErrNil

====
